---------------------------- MODULE Spec2Model ----------------------------
(***************************************************************************)
(* Model of the Skidmark roast generator Lambda                            *)
(* (src/backend/lambda/roast_generator.py).                                *)
(*                                                                         *)
(* Six specifications share this module:                                   *)
(*   Spec         one invocation of handler(): envelope decoding,          *)
(*                batching, the prompt of each batch, the worker pool of   *)
(*                _generate_roasts_parallel, the merge loop over           *)
(*                as_completed and the HTTP response;                      *)
(*   PromptSpec   _build_prompt as a pure function of its arguments, over  *)
(*                phases, brackets, team counts and contexts;              *)
(*   MatchupSpec  _build_prompt and _format_matchups_section over matchup  *)
(*                lists with varied scores and player lists;               *)
(*   BracketSpec  _build_prompt, _format_playoff_bracket_section and       *)
(*                _build_playoff_roasting_approach over brackets with      *)
(*                every combination of flags, opponents and team ids;      *)
(*   DecodeSpec   the decoding of a response text in _call_bedrock, over   *)
(*                bare and fenced serializations of a mapping;             *)
(*   OptionalSpec _build_prompt over every combination of present and      *)
(*                missing optional keys of the context and of a team, and  *)
(*                of given and omitted optional arguments.                 *)
(*                                                                         *)
(* Representation.  Team ids are small positive integers.  A roast text is *)
(* opaque; the text produced by the generation call of batch b is written  *)
(* b, so a merged mapping records which call wrote each key.  A prompt is  *)
(* a record of the parts the f-string of _build_prompt interpolates, each  *)
(* part a sequence of lines, each line a record [t, n, s]: the fixed copy  *)
(* of the line (t), the numbers interpolated into it (n) and the strings   *)
(* interpolated into it (s).                                               *)
(***************************************************************************)
EXTENDS Integers, Sequences, FiniteSets, TLC

VARIABLES
    event,      \* the request envelope handed to handler()
    pc,         \* position of the handler (coordinating) thread
    batches,    \* _generate_roasts_parallel: the list of batches
    future,     \* one future per batch: state, exception, value
    merged,     \* the merge map of the concurrent path
    consumed,   \* batches whose future the as_completed loop has taken
    order,      \* the order in which the loop took them
    raised,     \* exception propagating out of the with-block, or "none"
    calls,      \* number of bedrock.invoke_model calls made per batch
    response,   \* the handler's return value
    prompts,    \* the prompt _build_prompt returned for each batch
    max_workers,\* size of the worker pool, 0 while there is no pool
    pargs,      \* PromptSpec: the arguments of _build_prompt
    prompt,     \* PromptSpec: the value _build_prompt returned
    ppc,        \* PromptSpec: "args" before the call, then the function called
    reply,      \* DecodeSpec: the response text of a generation call
    decoded,    \* DecodeSpec: what _call_bedrock makes of it
    dpc         \* DecodeSpec: "text" before the decoding, "decoded" after

hvars ==
    <<event, pc, batches, future, merged, consumed, order, raised, calls, response, prompts,
      max_workers>>
pvars == <<pargs, prompt, ppc>>
dvars == <<reply, decoded, dpc>>
vars == <<hvars, pvars, dvars>>

-----------------------------------------------------------------------------
(* Bounds of the model. *)

\* Longest team list of a request.
MaxTeams == 5

\* Largest total_teams handed to _build_prompt.
MaxTotal == 9

\* Longest playoff bracket handed to _build_prompt.
MaxBracket == 2

\* Longest player list of a side of a matchup handed to _build_prompt.
MaxPlayers == 3

\* Largest number of points (in tenths) of a player of such a list.
MaxPoints == 2

\* Most keys of a mapping a generation call answers with.
MaxKeys == 2

(* Program constants. *)

BATCH_SIZE == 2

top_cutoff == 3

-----------------------------------------------------------------------------
(* Generic helpers. *)

Min(a, b) == IF a < b THEN a ELSE b

Range(s) == {s[i] : i \in 1..Len(s)}

RECURSIVE Concat(_)
Concat(ss) == IF ss = <<>> THEN <<>> ELSE Head(ss) \o Concat(Tail(ss))

\* Python slice s[lo:hi] with 0-based lo, hi already clipped by the caller.
Slice(s, lo, hi) == [i \in 1..(Min(hi, Len(s)) - lo) |-> s[lo + i]]

EmptyMap == <<>>

\* dict.update: keys of new override keys of old.
DictUpdate(old, new) ==
    [k \in (DOMAIN old) \cup (DOMAIN new) |-> IF k \in DOMAIN new THEN new[k] ELSE old[k]]

-----------------------------------------------------------------------------
(* The request envelope.                                                   *)
(*                                                                         *)
(* event.body is one of                                                    *)
(*   "nokey"        the event has no "body" key: event.get gives "{}";     *)
(*   "null"         the key is present with value None;                    *)
(*   "unparseable"  a string json.loads rejects;                           *)
(*   "nonobject"    a string json.loads turns into a list, number, string  *)
(*                  or None;                                               *)
(*   "object"       a string json.loads turns into a dict.                 *)
(* For "object", event.teams is "absent", "null" or "list", and            *)
(* event.list is the list of team ids in standing order; event.matchups    *)
(* is "absent" when the body has no "matchups" key and "list" when it      *)
(* carries the matchup of the first team of the list against the last.     *)

BodyKinds == {"nokey", "null", "unparseable", "nonobject", "object"}

TeamsKinds == {"absent", "null", "list"}

TeamIds == 1..MaxTeams

\* Team lists of a request: ids in ascending or in descending order of id.
TeamLists ==
    UNION {{[i \in 1..n |-> i], [i \in 1..n |-> n + 1 - i]} : n \in 0..MaxTeams}

Events ==
    {[body |-> b, teams |-> "absent", list |-> <<>>, matchups |-> "absent"] :
        b \in BodyKinds \ {"object"}}
    \cup {[body |-> "object", teams |-> k, list |-> <<>>, matchups |-> "absent"] :
             k \in {"absent", "null"}}
    \cup {[body |-> "object", teams |-> "list", list |-> l, matchups |-> m] :
             l \in TeamLists, m \in {"absent", "list"}}

\* json.loads(event.get("body", "{}")) followed by body.get("teams", []):
\* the exception raised ("none" when there is none) and the value of teams.
ParseEnvelope(ev) ==
    CASE ev.body = "nokey"       -> [exc |-> "none", teams |-> <<>>]
      [] ev.body = "null"        -> [exc |-> "TypeError", teams |-> <<>>]
      [] ev.body = "unparseable" -> [exc |-> "JSONDecodeError", teams |-> <<>>]
      [] ev.body = "nonobject"   -> [exc |-> "AttributeError", teams |-> <<>>]
      [] OTHER                   -> [exc |-> "none",
                                     teams |-> IF ev.teams = "list" THEN ev.list ELSE <<>>]

\* The emptiness check left out.
NoTeamsUnchecked(teams) == FALSE

\* `not teams`: None and the empty list are both falsy.
NoTeams(teams) == teams = <<>>

(* Values a generation call can decode to, and the exceptions it can raise. *)

NoVal == [kind |-> "none", map |-> EmptyMap]

MapVal(m) == [kind |-> "mapping", map |-> m]

\* json.loads of a response text that is valid JSON but not an object: a
\* non-empty array of roast texts.
ArrVal == [kind |-> "array", map |-> EmptyMap]

\* _response(status, body)
_response(status, error, roasts) ==
    [statusCode |-> status, error |-> error, roasts |-> roasts]

NoResponse == _response(0, "", NoVal)

\* The except clauses of handler, in order.
ErrorResponse(exc) ==
    IF exc = "JSONDecodeError"
    THEN _response(400, "Invalid JSON body", NoVal)
    ELSE _response(500, "Failed to generate roasts", NoVal)

\* Chunks one element too long: teams[i:i + BATCH_SIZE + 1].
BatchesOverlapping(teams) ==
    [j \in 1..((Len(teams) + BATCH_SIZE - 1) \div BATCH_SIZE) |->
        Slice(teams, (j - 1) * BATCH_SIZE, (j - 1) * BATCH_SIZE + BATCH_SIZE + 1)]

\* batches = [teams[i:i + BATCH_SIZE] for i in range(0, len(teams), BATCH_SIZE)]
Batches(teams) ==
    [j \in 1..((Len(teams) + BATCH_SIZE - 1) \div BATCH_SIZE) |->
        Slice(teams, (j - 1) * BATCH_SIZE, (j - 1) * BATCH_SIZE + BATCH_SIZE)]

(* The external generation capability.                                     *)
(*                                                                         *)
(* What Bedrock does with the prompt of a batch is not decided by the      *)
(* program: the call raises ("raise"), or returns a text that is not JSON  *)
(* ("invalid"), a JSON text that is not an object ("nonmapping"), or a     *)
(* JSON object ("mapping") whose keys are the batch's ids, or all of them  *)
(* but one, or all of them and one more id.                                *)

KeyChoices(batch) ==
    {Range(batch)}
    \cup {Range(batch) \ {x} : x \in Range(batch)}
    \cup {Range(batch) \cup {x} : x \in TeamIds \ Range(batch)}

Generations(batch) ==
    {[kind |-> k, keys |-> {}] : k \in {"raise", "invalid", "nonmapping"}}
    \cup {[kind |-> "mapping", keys |-> ks] : ks \in KeyChoices(batch)}

\* _call_bedrock for the prompt of batch b, given what the capability does:
\* the exception it raises ("none" when it returns) and the value returned.
_call_bedrock(b, gen) ==
    CASE gen.kind = "raise"       -> [exc |-> "ClientError", val |-> NoVal]
      [] gen.kind = "invalid"     -> [exc |-> "JSONDecodeError", val |-> NoVal]
      [] gen.kind = "nonmapping"  -> [exc |-> "none", val |-> ArrVal]
      [] OTHER                    -> [exc |-> "none", val |-> MapVal([k \in gen.keys |-> b])]

Pending == [state |-> "pending", exc |-> "none", val |-> NoVal]

Done(res) == [state |-> "done", exc |-> res.exc, val |-> res.val]

-----------------------------------------------------------------------------
(* The decoding of a response text (_call_bedrock, lines 436-447).         *)
(*                                                                         *)
(* A text is a sequence of tokens: the fence marker of three backticks,    *)
(* a language tag, a newline, a space, and the tokens of a JSON object,    *)
(* which is either written on one line (one token "object") or over        *)
(* several lines (the tokens "open", "members", "close" with newlines      *)
(* between them).  The tokens of an object carry its members as a          *)
(* sequence of (key, value) pairs.                                         *)

Tok(k, pairs) == [k |-> k, pairs |-> pairs]

Fence == Tok("fence", <<>>)

Tag == Tok("tag", <<>>)

NL == Tok("nl", <<>>)

SP == Tok("sp", <<>>)

IsSpace(tok) == tok.k \in {"nl", "sp"}

\* str.strip()
RECURSIVE Strip(_)
Strip(t) ==
    IF t = <<>> THEN t
    ELSE IF IsSpace(t[1]) THEN Strip(Tail(t))
    ELSE IF IsSpace(t[Len(t)]) THEN Strip(SubSeq(t, 1, Len(t) - 1))
    ELSE t

\* text.split("\n", 1)[1]: what follows the first newline.
AfterFirstLine(t) ==
    LET i == CHOOSE i \in 1..Len(t) : t[i] = NL /\ \A j \in 1..(i - 1) : t[j] # NL
    IN  SubSeq(t, i + 1, Len(t))

\* The dictionary json.loads builds from the members of an object: a
\* later member replaces an earlier one with the same key.
DictOf(pairs) ==
    [key \in {pairs[i][1] : i \in 1..Len(pairs)} |->
        pairs[CHOOSE i \in 1..Len(pairs) :
                 /\ pairs[i][1] = key
                 /\ \A j \in (i + 1)..Len(pairs) : pairs[j][1] # key][2]]

NotSpace(tok) == ~IsSpace(tok)

\* json.loads(text): whitespace between the tokens of a value is skipped;
\* a text that is not exactly one object raises JSONDecodeError.
JsonLoads(t) ==
    LET toks == SelectSeq(t, NotSpace) IN
    IF Len(toks) = 1 /\ toks[1].k = "object"
    THEN [exc |-> "none", val |-> MapVal(DictOf(toks[1].pairs))]
    ELSE IF /\ Len(toks) = 3
            /\ toks[1].k = "open"
            /\ toks[2].k = "members"
            /\ toks[3].k = "close"
    THEN [exc |-> "none", val |-> MapVal(DictOf(toks[2].pairs))]
    ELSE [exc |-> "JSONDecodeError", val |-> NoVal]

\* The text is parsed as it comes, fences and all.
DecodeTextFencesKept(text) == JsonLoads(Strip(text))

\* Lines 440-447: strip, drop the fence line (or the three backticks when
\* the text has no newline) and a closing fence, strip again, json.loads.
DecodeText(text) ==
    LET t1 == Strip(text) IN
    IF t1 # <<>> /\ t1[1] = Fence
    THEN LET t2 == IF \E i \in 1..Len(t1) : t1[i] = NL THEN AfterFirstLine(t1) ELSE Tail(t1)
             t3 == IF t2 # <<>> /\ t2[Len(t2)] = Fence THEN SubSeq(t2, 1, Len(t2) - 1) ELSE t2
         IN  JsonLoads(Strip(t3))
    ELSE JsonLoads(t1)

-----------------------------------------------------------------------------
(* Values of the prompt functions.                                         *)

\* A line of prompt text: fixed copy t with the numbers n and the strings s
\* interpolated into it.  A section is a sequence of lines; the empty
\* string is the empty sequence.
Line(t, n, s) == [t |-> t, n |-> n, s |-> s]

Copy(t) == Line(t, <<>>, <<>>)

\* An optional argument or dictionary entry: None / missing, or a value.
None == [isNone |-> TRUE, list |-> <<>>]

Some(l) == [isNone |-> FALSE, list |-> l]

\* bool(x) of an optional list: None and [] are falsy.
Truthy(x) == ~x.isNone /\ x.list # <<>>

Digits == <<"0", "1", "2", "3", "4", "5", "6", "7", "8", "9">>

\* str(i) of a non-negative integer.
RECURSIVE Str(_)
Str(i) == IF i < 10 THEN Digits[i + 1] ELSE Str(i \div 10) \o Digits[(i % 10) + 1]

\* An optional id field of a dictionary d, read as str(d.get(key, "")):
\* the key is missing ("absent"), null, the empty string, or an id.
StrOf(f) ==
    CASE f.p = "absent" -> ""
      [] f.p = "empty"  -> ""
      [] f.p = "null"   -> "None"
      [] OTHER          -> Str(f.v)

Id(i) == [p |-> "val", v |-> i]

AbsentId == [p |-> "absent", v |-> 0]

\* A team dictionary with its required keys id, name, owner and record;
\* hasName tells whether the name-resolution list has its name.
Team(i, name) == [id |-> i, hasName |-> TRUE, name |-> name, owner |-> "Owner", record |-> "5-3"]

\* team_names = {str(t["id"]): t.get("name", f"Team {t['id']}") for t in all_teams}
\* followed by team_names.get(tid, default); a later entry of the list
\* replaces an earlier one with the same id.
RECURSIVE TeamNamesGet(_, _, _)
TeamNamesGet(all_teams, tid, default) ==
    IF all_teams = <<>> THEN default
    ELSE LET t == all_teams[Len(all_teams)] IN
         IF Str(t.id) = tid
         THEN (IF t.hasName THEN t.name ELSE "Team " \o Str(t.id))
         ELSE TeamNamesGet(SubSeq(all_teams, 1, Len(all_teams) - 1), tid, default)

\* ", ".join(names)
RECURSIVE Join(_)
Join(names) ==
    IF names = <<>> THEN ""
    ELSE IF Len(names) = 1 THEN names[1]
    ELSE names[1] \o ", " \o Join(Tail(names))

-----------------------------------------------------------------------------
(* _format_matchups_section.  Scores and points are numbers of tenths.     *)

\* Every player of the list is taken for a starter.
IsStarterAlways(p) == TRUE

\* Line 117: p.get("is_starter", False)
IsStarter(p) == IF "is_starter" \in DOMAIN p THEN p.is_starter ELSE FALSE

\* Line 116: m.get(players_key, [])
PlayersGet(m, players_key) == IF players_key \in DOMAIN m THEN m[players_key] ELSE <<>>

\* The first starter is taken for the top scorer.
TopIdxFirstListed(starters) == 1

\* max(starters, key=points) and min(starters, key=points) return the first
\* element with the extreme key; `p is top` compares objects, which are the
\* positions of the list.
TopIdx(starters) ==
    CHOOSE i \in 1..Len(starters) :
        /\ \A j \in 1..Len(starters) : starters[j].points <= starters[i].points
        /\ \A j \in 1..(i - 1) : starters[j].points < starters[i].points

\* Of the starters with the fewest points the last one is taken.
BustIdxLastListed(starters) ==
    CHOOSE i \in 1..Len(starters) :
        /\ \A j \in 1..Len(starters) : starters[j].points >= starters[i].points
        /\ \A j \in (i + 1)..Len(starters) : starters[j].points > starters[i].points

BustIdx(starters) ==
    CHOOSE i \in 1..Len(starters) :
        /\ \A j \in 1..Len(starters) : starters[j].points >= starters[i].points
        /\ \A j \in 1..(i - 1) : starters[j].points > starters[i].points

Marker(starters, i) ==
    IF i = TopIdx(starters) THEN " TOP SCORER"
    ELSE IF i = BustIdx(starters) THEN " BIGGEST BUST"
    ELSE ""

\* Lines 116-138: the lines of one side of a matchup.
SideLines(team_name, score, result, players) ==
    LET starters == SelectSeq(players, IsStarter) IN
    <<Line("  {team_name} -- {score:.1f} pts ({result})", <<score>>, <<team_name, result>>)>>
    \o (IF starters # <<>>
        THEN [i \in 1..Len(starters) |->
                Line("    {name} ({pos}): {pts:.1f} pts{marker}",
                     <<starters[i].points>>,
                     <<starters[i].name, starters[i].position, Marker(starters, i)>>)]
        ELSE <<Copy("    No starter data available")>>)
    \o <<Copy("")>>

\* A level score is taken for a home win.
ResultsNoTie(home_score, away_score) ==
    IF home_score >= away_score THEN <<"WIN", "LOSS">> ELSE <<"LOSS", "WIN">>

\* Lines 102-107: (result_home, result_away).
Results(home_score, away_score) ==
    IF home_score > away_score THEN <<"WIN", "LOSS">>
    ELSE IF away_score > home_score THEN <<"LOSS", "WIN">>
    ELSE <<"TIE", "TIE">>

\* Lines 95-140: the lines of one matchup.
MatchupLines(m, all_teams) ==
    LET home_id == StrOf(m.home_team_id)
        away_id == StrOf(m.away_team_id)
        home_name == TeamNamesGet(all_teams, home_id, "Team " \o home_id)
        away_name == TeamNamesGet(all_teams, away_id, "Team " \o away_id)
        result_home == Results(m.home_score, m.away_score)[1]
        result_away == Results(m.home_score, m.away_score)[2]
    IN  <<Line("{home_name} ({home_score:.1f}) vs {away_name} ({away_score:.1f})",
               <<m.home_score, m.away_score>>, <<home_name, away_name>>),
          Copy("")>>
        \o SideLines(home_name, m.home_score, result_home, PlayersGet(m, "home_players"))
        \o SideLines(away_name, m.away_score, result_away, PlayersGet(m, "away_players"))
        \o <<Copy("---")>>

\* The header is written for every list.
_format_matchups_section_unguarded(matchups, all_teams, week_number) ==
    <<Line("=== {week_label}'S MATCHUPS ===", <<>>, <<"THIS WEEK">>)>>

\* week_number is None or 0 (both falsy), or a positive week.
_format_matchups_section(matchups, all_teams, week_number) ==
    IF ~Truthy(matchups) THEN <<>>
    ELSE LET week_label == IF week_number # 0 THEN "WEEK " \o Str(week_number)
                           ELSE "THIS WEEK" IN
         <<Line("=== {week_label}'S MATCHUPS ===", <<>>, <<week_label>>)>>
         \o Concat([i \in 1..Len(matchups.list) |-> MatchupLines(matchups.list[i], all_teams)])

-----------------------------------------------------------------------------
(* _format_playoff_bracket_section and _build_playoff_roasting_approach.   *)

IsChampionship(e) == e.is_championship

IsConsolation(e) == e.is_consolation

IsEliminated(e) == e.is_eliminated

IsWinners(e) == ~e.is_consolation /\ ~e.is_championship

EntryName(e, all_teams) ==
    TeamNamesGet(all_teams, StrOf(e.team_id), "Team " \o StrOf(e.team_id))

\* opp_name = team_names.get(opp_id, f"Team {opp_id}") if opp_id else "TBD"
OppName(e, all_teams) ==
    LET opp_id == StrOf(e.opponent_team_id) IN
    IF opp_id # "" THEN TeamNamesGet(all_teams, opp_id, "Team " \o opp_id) ELSE "TBD"

EliminatedTag(e) == IF e.is_eliminated THEN " [ELIMINATED]" ELSE ""

_format_playoff_bracket_section(playoff_bracket, all_teams) ==
    IF ~Truthy(playoff_bracket) THEN <<>>
    ELSE
    LET entries == playoff_bracket.list
        ChampLine(e) == Line("  #{seed} {name} vs {opp_name}", <<e.seed>>,
                             <<EntryName(e, all_teams), OppName(e, all_teams)>>)
        WinLine(e) == Line("  #{seed} {name} (Round {rnd}) vs {opp_name}{eliminated}",
                           <<e.seed, e.current_round>>,
                           <<EntryName(e, all_teams), OppName(e, all_teams), EliminatedTag(e)>>)
        ConsLine(e) == Line("  #{seed} {name}{eliminated}", <<e.seed>>,
                            <<EntryName(e, all_teams), EliminatedTag(e)>>)
        champ_entries == SelectSeq(entries, IsChampionship)
        win_entries == SelectSeq(entries, IsWinners)
        cons_entries == SelectSeq(entries, IsConsolation)
        championship == [i \in 1..Len(champ_entries) |-> ChampLine(champ_entries[i])]
        winners == [i \in 1..Len(win_entries) |-> WinLine(win_entries[i])]
        consolation == [i \in 1..Len(cons_entries) |-> ConsLine(cons_entries[i])]
    IN  <<Copy("=== PLAYOFF BRACKET ===")>>
        \o (IF championship # <<>>
            THEN <<Copy("CHAMPIONSHIP MATCHUP:")>> \o championship \o <<Copy("")>>
            ELSE <<>>)
        \o (IF winners # <<>>
            THEN <<Copy("WINNERS BRACKET:")>> \o winners \o <<Copy("")>>
            ELSE <<>>)
        \o (IF consolation # <<>>
            THEN <<Copy("CONSOLATION BRACKET (the losers' lounge):")>> \o consolation
                 \o <<Copy("")>>
            ELSE <<>>)

_build_playoff_roasting_approach(playoff_bracket, all_teams) ==
    LET entries == playoff_bracket.list
        NameOrUnknown(e) == TeamNamesGet(all_teams, StrOf(e.team_id), "Unknown")
        IsConsolationAlive(e) == e.is_consolation /\ ~e.is_eliminated
        IsActive(e) == ~e.is_championship /\ ~e.is_eliminated /\ ~e.is_consolation
        champ_teams == SelectSeq(entries, IsChampionship)
        eliminated == SelectSeq(entries, IsEliminated)
        consolation == SelectSeq(entries, IsConsolationAlive)
        active == SelectSeq(entries, IsActive)
        champ_names == Join([i \in 1..Len(champ_teams) |-> NameOrUnknown(champ_teams[i])])
        eliminated_names == Join([i \in 1..Len(eliminated) |-> NameOrUnknown(eliminated[i])])
    IN  <<Copy("=== ROASTING APPROACH (PLAYOFF MODE) ==="),
          Copy(""),
          Copy("This is the PLAYOFFS. Every game is win-or-go-home."),
          Copy("")>>
        \o (IF champ_teams # <<>>
            THEN <<Line("CHAMPIONSHIP CONTENDERS ({champ_names})", <<>>, <<champ_names>>),
                   Copy("")>>
            ELSE <<>>)
        \o (IF active # <<>> THEN <<Copy("ACTIVE BRACKET"), Copy("")>> ELSE <<>>)
        \o (IF consolation # <<>> THEN <<Copy("CONSOLATION BRACKET"), Copy("")>> ELSE <<>>)
        \o (IF eliminated # <<>>
            THEN <<Line("ELIMINATED ({eliminated_names})", <<>>, <<eliminated_names>>),
                   Copy("")>>
            ELSE <<>>)

-----------------------------------------------------------------------------
(* _build_prompt.                                                          *)

\* mid_cutoff = min(7, total_teams - 1)
mid_cutoff(total_teams) == Min(7, total_teams - 1)

\* The phase alone decides.
is_playoff_mode_phase_only(season_phase, playoff_bracket) == season_phase = "playoffs"

\* is_playoff_mode = season_phase == "playoffs" and bool(playoff_bracket)
is_playoff_mode(season_phase, playoff_bracket) ==
    season_phase = "playoffs" /\ Truthy(playoff_bracket)

\* Every phase but the default one is taken for the offseason.
is_offseason_not_regular(season_phase) == season_phase # "regular_season"

is_offseason(season_phase) == season_phase = "offseason"

\* sacko = ctx.get("sacko_punishment", "not specified")
Sacko(ctx) == IF ctx.sacko_punishment.isNone THEN "not specified" ELSE ctx.sacko_punishment.s

matchup_requirements ==
    <<Copy("- Reference specific player performances from this week's matchups."),
      Copy("- Mention at least one specific player performance per roast."),
      Copy("- Mock teams that lost despite having a high-scoring player.")>>

playoff_requirements ==
    <<Copy("- Reference each team's playoff seed and bracket position."),
      Copy("- Emphasize elimination pressure -- every loss could be the last."),
      Copy("- Mock eliminated teams mercilessly."),
      Copy("- For head-to-head playoff matchups, reference what is at stake."),
      Copy("- Give championship matchup teams an elevated roast treatment.")>>

\* The matchup lines are left out in playoffs mode.
ExtraRequirementsOneSet(matchups, playoff) ==
    IF playoff THEN playoff_requirements
    ELSE IF Truthy(matchups) THEN matchup_requirements ELSE <<>>

\* Lines 330-339, 348-354 and 380-382: matchup_requirements is set when
\* matchups is truthy, playoff_requirements in playoffs mode, and
\* all_extra_requirements joins the non-empty ones, matchup lines first.
ExtraRequirements(matchups, playoff) ==
    (IF Truthy(matchups) THEN matchup_requirements ELSE <<>>)
    \o (IF playoff THEN playoff_requirements ELSE <<>>)

\* Lines 357-365: the offseason tier template.
OffseasonApproach(total_teams, sacko) ==
    <<Copy("=== ROASTING APPROACH (OFFSEASON MODE) ==="),
      Copy("The season is OVER. These are the final standings."),
      Line("TOP TIER (ranks 1-{top_cutoff}): They won when it mattered.",
           <<top_cutoff>>, <<>>),
      Line("MIDDLE TIER (ranks {top_cutoff + 1}-{mid_cutoff}): The most forgettable teams.",
           <<top_cutoff + 1, mid_cutoff(total_teams)>>, <<>>),
      Line("BOTTOM TIER (ranks {mid_cutoff + 1}+): Their season was a disaster. {sentence}",
           <<mid_cutoff(total_teams) + 1>>,
           <<IF sacko # "not specified"
             THEN "The sacko punishment (" \o sacko \o ") awaits."
             ELSE "They have nothing to show for an entire season of effort.">>)>>

\* The regular season is told in the past tense of the offseason.
RegularApproachPastTense(total_teams, sacko) == OffseasonApproach(total_teams, sacko)

\* Lines 369-375: the regular-season tier template.
RegularApproach(total_teams, sacko) ==
    <<Copy("=== ROASTING APPROACH ==="),
      Line("TOP TIER (ranks 1-{top_cutoff}): Celebrate success with backhanded compliments.",
           <<top_cutoff>>, <<>>),
      Line("MIDDLE TIER (ranks {top_cutoff + 1}-{mid_cutoff}): These are the frauds.",
           <<top_cutoff + 1, mid_cutoff(total_teams)>>, <<>>),
      Line("BOTTOM TIER (ranks {mid_cutoff + 1}+): Absolute destruction. {sentence}",
           <<mid_cutoff(total_teams) + 1>>,
           <<IF sacko # "not specified"
             THEN "The sacko punishment (" \o sacko \o ") is looming -- remind them VIVIDLY."
             ELSE "They are not tanking, they are just bad.">>)>>

\* d.get(key, default) of a dictionary given as a record.
DictGet(d, key, default) == IF key \in DOMAIN d THEN d[key] ELSE default

\* Lines 291-294: ", ".join of the top players of a team.
TopPlayersText(t) ==
    LET top_players == DictGet(t, "top_players", <<>>) IN
    Join([i \in 1..Len(top_players) |->
            top_players[i].name \o " (" \o top_players[i].position \o ", "
                \o Str(top_players[i].points) \o " pts)"])

\* The placeholder of a missing number or streak is left out.
TeamFieldBlank(t, key) ==
    IF key \in DOMAIN t THEN (IF key = "streak" THEN t[key] ELSE Str(t[key])) ELSE ""

\* t.get(key, '?') as the f-string writes it: the streak is a string, the
\* points are numbers written by str.
TeamField(t, key) ==
    IF key \in DOMAIN t THEN (IF key = "streak" THEN t[key] ELSE Str(t[key])) ELSE "?"

\* Lines 295-300: the block of one team.
TeamBlock(t) ==
    <<Line("- ID: {id} | {name} owned by {owner}", <<t.id>>, <<t.name, t.owner>>),
      Line("  Record: {record} | PF: {points_for} | PA: {points_against} | Streak: {streak}",
           <<>>,
           <<t.record, TeamField(t, "points_for"), TeamField(t, "points_against"),
             TeamField(t, "streak")>>),
      Line("  Top players: {players}", <<>>,
           <<IF TopPlayersText(t) # "" THEN TopPlayersText(t) ELSE "none listed">>)>>

\* Lines 289-301: teams_text, the blocks of the teams in list order.
RECURSIVE TeamsText(_)
TeamsText(teams) ==
    IF teams = <<>> THEN <<>> ELSE TeamBlock(Head(teams)) \o TeamsText(Tail(teams))

\* Lines 304-307: jokes_text.
JokesText(ctx) ==
    LET jokes == DictGet(ctx, "inside_jokes", <<>>) IN
    IF jokes # <<>>
    THEN [i \in 1..Len(jokes) |->
            Line("- {term}: {explanation}", <<>>, <<jokes[i].term, jokes[i].explanation>>)]
    ELSE <<Copy("None provided.")>>

\* Lines 309-312: personalities_text.
PersonalitiesText(ctx) ==
    LET personalities == DictGet(ctx, "personalities", <<>>) IN
    IF personalities # <<>>
    THEN [i \in 1..Len(personalities) |->
            Line("- {player_name}: {description}", <<>>,
                 <<personalities[i].player_name, personalities[i].description>>)]
    ELSE <<Copy("None provided.")>>

\* Line 315: culture = ctx.get("culture_notes", "not specified")
Culture(ctx) == DictGet(ctx, "culture_notes", "not specified")

\* The parts the returned f-string interpolates (lines 384-418), in order.
_build_prompt(teams, ctx, total_teams, matchups, week_number, season_phase, playoff_bracket, all_teams) ==
    LET sacko == Sacko(ctx)
        resolve_teams == IF Truthy(all_teams) THEN all_teams.list ELSE teams
        playoff == is_playoff_mode(season_phase, playoff_bracket)
    IN  [roasting_approach |->
            IF playoff THEN _build_playoff_roasting_approach(playoff_bracket, resolve_teams)
            ELSE IF is_offseason(season_phase) THEN OffseasonApproach(total_teams, sacko)
            ELSE RegularApproach(total_teams, sacko),
         matchups_section |->
            IF Truthy(matchups)
            THEN _format_matchups_section(matchups, resolve_teams, week_number)
            ELSE <<>>,
         bracket_section |->
            IF playoff THEN _format_playoff_bracket_section(playoff_bracket, resolve_teams)
            ELSE <<>>,
         all_extra_requirements |-> ExtraRequirements(matchups, playoff),
         id_list |-> [i \in 1..Len(teams) |-> teams[i].id],
         sacko |-> sacko,
         teams_text |-> TeamsText(teams),
         jokes_text |-> JokesText(ctx),
         personalities_text |-> PersonalitiesText(ctx),
         culture |-> Culture(ctx)]

-----------------------------------------------------------------------------
(* handler and _generate_roasts_parallel.                                  *)
(*                                                                         *)
(* The handler thread is at "entry" before the call, at "collect" inside   *)
(* the as_completed loop, at "unwind" when it leaves the with-block (the   *)
(* loop has ended or an exception propagates) and waits in                 *)
(* executor.shutdown(wait=True) for the workers, and at "done" once it has *)
(* returned the response.  Everything the handler does between two of      *)
(* these points is one action.                                             *)

\* The name the request gives to the team with id i.
TeamName(i) == "Club " \o Str(i)

\* The team dictionaries of a list of ids.
TeamDicts(ids) == [i \in 1..Len(ids) |-> Team(ids[i], TeamName(ids[i]))]

\* ctx = body.get("context", {}): the requests explored carry no context.
RequestContext == [sacko_punishment |-> [isNone |-> TRUE, s |-> ""]]

\* matchups = body.get("matchups", []): the empty list, or the matchup of
\* the first team of the list against the last, without player data.
RequestMatchups(ev) ==
    IF ev.matchups = "list" /\ ev.list # <<>>
    THEN Some(<<[home_team_id |-> Id(ev.list[1]), away_team_id |-> Id(ev.list[Len(ev.list)]),
                 home_score |-> 1100, away_score |-> 950,
                 home_players |-> <<>>, away_players |-> <<>>]>>)
    ELSE Some(<<>>)

\* Every prompt is built from the batch alone: len(batch) and
\* all_teams=batch.
BatchPromptLocal(batch, teams, ev) ==
    _build_prompt(TeamDicts(batch), RequestContext, Len(batch), RequestMatchups(ev), 0,
                  "regular_season", None, Some(TeamDicts(batch)))

\* The whole list is handed over as the teams to roast.
BatchPromptAllTeams(batch, teams, ev) ==
    _build_prompt(TeamDicts(teams), RequestContext, Len(teams), RequestMatchups(ev), 0,
                  "regular_season", None, Some(TeamDicts(teams)))

\* Lines 56-59 and 66-69: _build_prompt(batch, ctx, len(teams), matchups,
\* week_number, season_phase, playoff_bracket, all_teams=teams).  The
\* requests explored carry no week_number, season_phase or playoff_bracket:
\* body.get gives None, "regular_season" and None (lines 28-30).
BatchPrompt(batch, teams, ev) ==
    _build_prompt(TeamDicts(batch), RequestContext, Len(teams), RequestMatchups(ev), 0,
                  "regular_season", None, Some(TeamDicts(teams)))

HInit ==
    /\ event \in Events
    /\ pc = "entry"
    /\ batches = <<>>
    /\ future = <<>>
    /\ merged = EmptyMap
    /\ consumed = {}
    /\ order = <<>>
    /\ raised = "none"
    /\ calls = <<>>
    /\ response = NoResponse
    /\ prompts = <<>>
    /\ max_workers = 0

\* handler, lines 19-24 and 37-41: the envelope does not decode, or the
\* team list is empty.  No batch is formed and no generation call is made.
HandlerReject ==
    /\ pc = "entry"
    /\ LET env == ParseEnvelope(event) IN
        /\ env.exc # "none" \/ NoTeams(env.teams)
        /\ response' = IF env.exc # "none"
                        THEN ErrorResponse(env.exc)
                        ELSE _response(400, "No teams provided", NoVal)
    /\ pc' = "done"
    /\ UNCHANGED <<event, batches, future, merged, consumed, order, raised, calls, prompts, max_workers,
                 pvars, dvars>>

\* handler with exactly one batch: _generate_roasts_parallel builds the
\* prompt and calls _call_bedrock on the handler thread (lines 55-60); the
\* handler returns what it decoded, or the response of its except clauses.
HandlerSingle ==
    /\ pc = "entry"
    /\ LET env == ParseEnvelope(event)
           bs == Batches(env.teams) IN
        /\ env.exc = "none"
        /\ ~NoTeams(env.teams)
        /\ Len(bs) = 1
        /\ \E gen \in Generations(bs[1]) :
              LET res == _call_bedrock(1, gen) IN
              /\ batches' = bs
              /\ prompts' = <<BatchPrompt(bs[1], env.teams, event)>>
              /\ future' = <<Done(res)>>
              /\ calls' = <<1>>
              /\ response' = IF res.exc # "none"
                              THEN ErrorResponse(res.exc)
                              ELSE _response(200, "", res.val)
    /\ pc' = "done"
    /\ UNCHANGED <<event, merged, consumed, order, raised, max_workers, pvars, dvars>>

\* A pool of BATCH_SIZE workers whatever the number of batches.
PoolSizeFixed(bs) == BATCH_SIZE

\* Line 63: ThreadPoolExecutor(max_workers=len(batches)); no pool for no batch.
PoolSize(bs) == Len(bs)

\* handler with any other number of batches: the pool is created with
\* max_workers = len(batches) and one task per batch is submitted (lines
\* 62-73).  ThreadPoolExecutor(max_workers=0) raises ValueError.
HandlerSubmit ==
    /\ pc = "entry"
    /\ LET env == ParseEnvelope(event)
           bs == Batches(env.teams) IN
        /\ env.exc = "none"
        /\ ~NoTeams(env.teams)
        /\ Len(bs) # 1
        /\ batches' = bs
        /\ max_workers' = PoolSize(bs)
        /\ IF Len(bs) = 0
           THEN /\ response' = ErrorResponse("ValueError")
                /\ pc' = "done"
                /\ UNCHANGED <<future, calls, prompts>>
           ELSE /\ prompts' = [b \in 1..Len(bs) |-> BatchPrompt(bs[b], env.teams, event)]
                /\ future' = [b \in 1..Len(bs) |-> Pending]
                /\ calls' = [b \in 1..Len(bs) |-> 0]
                /\ pc' = "collect"
                /\ UNCHANGED response
    /\ UNCHANGED <<event, merged, consumed, order, raised, pvars, dvars>>

\* A pool worker runs _call_bedrock for batch b to its end (lines 421-447).
\* The pool has one worker per batch, so every submitted task runs, also
\* after the handler thread has left the loop with an exception.
WorkerRun(b) ==
    /\ pc \in {"collect", "unwind"}
    /\ future[b].state = "pending"
    /\ \E gen \in Generations(batches[b]) :
          future' = [future EXCEPT ![b] = Done(_call_bedrock(b, gen))]
    /\ calls' = [calls EXCEPT ![b] = @ + 1]
    /\ UNCHANGED <<event, pc, batches, merged, consumed, order, raised, response, prompts, max_workers,
                 pvars, dvars>>

\* merged.update(value): a dict is merged key by key; an array of roast
\* texts is not a sequence of pairs and dict.update raises ValueError.
MergeUpdate(m, val) ==
    IF val.kind = "mapping"
    THEN [exc |-> "none", map |-> DictUpdate(m, val.map)]
    ELSE [exc |-> "ValueError", map |-> m]

\* The worker of a failed task stored its exception in the future.
FutureResultSwallow(f) ==
    IF f.exc # "none" THEN [exc |-> "none", val |-> MapVal(EmptyMap)]
    ELSE [exc |-> "none", val |-> f.val]

\* future.result() of a finished future: the exception the call raised is
\* raised again on the handler thread, otherwise its value is returned.
FutureResult(f) == [exc |-> f.exc, val |-> f.val]

\* One iteration of `for future in as_completed(futures)` (lines 74-75):
\* the loop takes a finished future it has not taken yet; future.result()
\* re-raises the worker's exception, otherwise the value is merged.
\* as_completed yields the futures that are finished when it is called in
\* no defined order and the others as they finish, so every order of the
\* finished futures can be the order of the merges.
Collect(b) ==
    /\ pc = "collect"
    /\ b \notin consumed
    /\ future[b].state = "done"
    /\ consumed' = consumed \cup {b}
    /\ order' = Append(order, b)
    /\ IF FutureResult(future[b]).exc # "none"
       THEN /\ raised' = FutureResult(future[b]).exc
            /\ pc' = "unwind"
            /\ UNCHANGED merged
       ELSE LET upd == MergeUpdate(merged, FutureResult(future[b]).val) IN
            /\ merged' = upd.map
            /\ raised' = upd.exc
            /\ pc' = IF upd.exc # "none" \/ consumed' = DOMAIN future
                     THEN "unwind" ELSE "collect"
    /\ UNCHANGED <<event, batches, future, calls, response, prompts, max_workers,
                 pvars, dvars>>

\* Some worker finishes its task.
Workers == \E b \in DOMAIN future : WorkerRun(b)

\* The as_completed loop takes some finished future.
AsCompleted == \E b \in DOMAIN future : Collect(b)

\* The pool is left without waiting for its workers.
ReturnWithoutWaiting ==
    /\ pc = "unwind"
    /\ response' = IF raised # "none"
                    THEN ErrorResponse(raised)
                    ELSE _response(200, "", MapVal(merged))
    /\ pc' = "done"
    /\ UNCHANGED <<event, batches, future, merged, consumed, order, raised, calls, prompts, max_workers,
                 pvars, dvars>>

\* The with-block exits once every worker has finished; then
\* _generate_roasts_parallel returns merged, or the exception reaches the
\* except clauses of handler (lines 35-41 and 76).
Return ==
    /\ pc = "unwind"
    /\ \A b \in DOMAIN future : future[b].state = "done"
    /\ response' = IF raised # "none"
                    THEN ErrorResponse(raised)
                    ELSE _response(200, "", MapVal(merged))
    /\ pc' = "done"
    /\ UNCHANGED <<event, batches, future, merged, consumed, order, raised, calls, prompts, max_workers,
                 pvars, dvars>>

-----------------------------------------------------------------------------
(* Arguments of _build_prompt explored by PromptSpec.                      *)

SeasonPhases == {"regular_season", "playoffs", "offseason", "preseason"}

PromptTeams == <<Team(1, "Eagles"), Team(2, "Bears")>>

\* The bracket entry of the team at position i of the bracket.
BracketEntry(i, elim, cons, champ) ==
    [team_id |-> Id(i), seed |-> i, current_round |-> 1, opponent_team_id |-> AbsentId,
     is_eliminated |-> elim, is_consolation |-> cons, is_championship |-> champ]

BracketEntriesAt(i) ==
    {BracketEntry(i, FALSE, FALSE, TRUE), BracketEntry(i, FALSE, FALSE, FALSE),
     BracketEntry(i, FALSE, TRUE, FALSE), BracketEntry(i, TRUE, TRUE, FALSE)}

BracketLists ==
    UNION {{l \in [1..n -> UNION {BracketEntriesAt(i) : i \in 1..n}] :
               \A i \in 1..n : l[i] \in BracketEntriesAt(i)} : n \in 0..MaxBracket}

Brackets == {None} \cup {Some(l) : l \in BracketLists}

Player(name, position, points, starter) ==
    [name |-> name, position |-> position, points |-> points, is_starter |-> starter]

PromptMatchup ==
    [home_team_id |-> Id(1), away_team_id |-> Id(2), home_score |-> 1100, away_score |-> 950,
     home_players |-> <<Player("Star QB", "QB", 300, TRUE), Player("Bust WR", "WR", 21, TRUE),
                        Player("Bench RB", "RB", 0, FALSE)>>,
     away_players |-> <<Player("Solid RB", "RB", 185, TRUE)>>]

\* (matchups, week_number)
MatchupArgs ==
    {<<None, 0>>, <<Some(<<>>), 0>>, <<Some(<<PromptMatchup>>), 0>>, <<Some(<<PromptMatchup>>), 3>>}

Contexts ==
    {[sacko_punishment |-> [isNone |-> TRUE, s |-> ""]],
     [sacko_punishment |-> [isNone |-> FALSE, s |-> "wear a dress"]]}

PromptArgs ==
    [teams : {PromptTeams}, ctx : Contexts, total_teams : 1..MaxTotal, matchups : MatchupArgs,
     season_phase : SeasonPhases, playoff_bracket : Brackets, all_teams : {Some(PromptTeams)}]

NoPrompt ==
    [roasting_approach |-> <<>>, matchups_section |-> <<>>, bracket_section |-> <<>>,
     all_extra_requirements |-> <<>>, id_list |-> <<>>, sacko |-> "",
     teams_text |-> <<>>, jokes_text |-> <<>>, personalities_text |-> <<>>, culture |-> ""]

\* _build_prompt applied to a record of arguments.
BuildPromptOf(a) ==
    _build_prompt(a.teams, a.ctx, a.total_teams, a.matchups[1], a.matchups[2],
                  a.season_phase, a.playoff_bracket, a.all_teams)

PInit ==
    /\ pargs \in PromptArgs
    /\ prompt = NoPrompt
    /\ ppc = "args"

BuildPrompt ==
    /\ ppc = "args"
    /\ prompt' = BuildPromptOf(pargs)
    /\ ppc' = "built"
    /\ UNCHANGED <<pargs, hvars, dvars>>

-----------------------------------------------------------------------------
(* The specifications.  Each leaves the variables of the others at rest.   *)

NoDecoded == [exc |-> "none", val |-> NoVal]

DIdle ==
    /\ reply = <<>>
    /\ decoded = NoDecoded
    /\ dpc = "idle"

PIdle ==
    /\ pargs = <<>>
    /\ prompt = NoPrompt
    /\ ppc = "idle"

HIdle ==
    /\ event = <<>>
    /\ pc = "idle"
    /\ batches = <<>>
    /\ future = <<>>
    /\ merged = EmptyMap
    /\ consumed = {}
    /\ order = <<>>
    /\ raised = "none"
    /\ calls = <<>>
    /\ response = NoResponse
    /\ prompts = <<>>
    /\ max_workers = 0

Init == HInit /\ PIdle /\ DIdle

Next ==
    \/ HandlerReject
    \/ HandlerSingle
    \/ HandlerSubmit
    \/ Workers
    \/ AsCompleted
    \/ Return

Spec == Init /\ [][Next]_vars

PromptInit == PInit /\ HIdle /\ DIdle

PromptNext == BuildPrompt

PromptSpec == PromptInit /\ [][PromptNext]_vars

-----------------------------------------------------------------------------
(* Arguments of _build_prompt explored by MatchupSpec: matchup lists with  *)
(* every player list of up to MaxPlayers players on one side.              *)

PlayerAt(i, points, starter) == Player("Player " \o Str(i), "QB", points, starter)

\* The dict p without the key k.
Without(p, k) == [x \in DOMAIN p \ {k} |-> p[x]]

\* A player is a starter, a bench player, or a player without is_starter.
PlayerKinds ==
    ((0..MaxPoints) \X {"starter", "bench"}) \cup {<<0, "unflagged">>}

PlayerOf(i, kind) ==
    IF kind[2] = "unflagged" THEN Without(PlayerAt(i, kind[1], FALSE), "is_starter")
    ELSE PlayerAt(i, kind[1], kind[2] = "starter")

PlayerLists ==
    UNION {{[i \in 1..n |-> PlayerOf(i, f[i])] : f \in [1..n -> PlayerKinds]} :
              n \in 0..MaxPlayers}

\* (home_players, away_players)
Sides ==
    {<<l, PromptMatchup.away_players>> : l \in PlayerLists}
    \cup {<<PromptMatchup.away_players, l>> : l \in PlayerLists}

Scores == {950, 1100}

\* The away team is a team of the list, or a team the list does not hold.
FullMatchups ==
    {[home_team_id |-> Id(1), away_team_id |-> Id(a), home_score |-> hs, away_score |-> as,
      home_players |-> sd[1], away_players |-> sd[2]] :
        a \in {2, 7}, hs \in Scores, as \in Scores, sd \in Sides}

\* A matchup with both player lists, without away_players, or without both.
Matchups ==
    FullMatchups
    \cup {Without(m, "away_players") : m \in FullMatchups}
    \cup {Without(Without(m, "away_players"), "home_players") : m \in FullMatchups}

MatchupLists ==
    {None, Some(<<>>), Some(<<PromptMatchup, PromptMatchup>>)}
    \cup {Some(<<m>>) : m \in Matchups}

MatchupPromptArgs ==
    [teams : {PromptTeams}, ctx : {RequestContext}, total_teams : {Len(PromptTeams)},
     matchups : MatchupLists \X {0}, season_phase : {"regular_season"},
     playoff_bracket : {None}, all_teams : {Some(PromptTeams)}]

MatchupInit ==
    /\ pargs \in MatchupPromptArgs
    /\ prompt = NoPrompt
    /\ ppc = "args"
    /\ HIdle
    /\ DIdle

\* _format_matchups_section called on its own, as the tests call it.
FormatMatchups ==
    /\ ppc = "args"
    /\ prompt' = [NoPrompt EXCEPT !.matchups_section =
                     _format_matchups_section(pargs.matchups[1], pargs.all_teams.list,
                                              pargs.matchups[2])]
    /\ ppc' = "formatted"
    /\ UNCHANGED <<pargs, hvars, dvars>>

MatchupNext ==
    \/ BuildPrompt
    \/ FormatMatchups

MatchupSpec == MatchupInit /\ [][MatchupNext]_vars

-----------------------------------------------------------------------------
(* Arguments of _build_prompt explored by BracketSpec: playoff brackets    *)
(* with every combination of the three flags at every position.  The seed  *)
(* of an entry is its position in the bracket.  The first entry is a team  *)
(* of the list or a team the list does not hold, and its opponent is       *)
(* missing, null, the empty string, a team of the list or a team the list  *)
(* does not hold; a later entry is the team whose id is its position, with *)
(* the first team for opponent.                                            *)

NullId == [p |-> "null", v |-> 0]

EmptyId == [p |-> "empty", v |-> 0]

Entry(i, tid, opp, elim, cons, champ) ==
    [team_id |-> tid, seed |-> i, current_round |-> 1, opponent_team_id |-> opp,
     is_eliminated |-> elim, is_consolation |-> cons, is_championship |-> champ]

EntriesAt(i) ==
    IF i = 1
    THEN {Entry(1, Id(t), opp, f[1], f[2], f[3]) :
             t \in {1, 7}, opp \in {AbsentId, NullId, EmptyId, Id(2), Id(7)},
             f \in BOOLEAN \X BOOLEAN \X BOOLEAN}
    ELSE {Entry(i, Id(i), Id(1), f[1], f[2], f[3]) : f \in BOOLEAN \X BOOLEAN \X BOOLEAN}

RECURSIVE EntryLists(_)
EntryLists(n) ==
    IF n = 0 THEN {<<>>}
    ELSE {Append(l, e) : l \in EntryLists(n - 1), e \in EntriesAt(n)}

FlagBrackets == {None} \cup {Some(l) : l \in UNION {EntryLists(n) : n \in 0..MaxBracket}}

\* The matchup of the first team of the list against a team the list does
\* not hold.
StrangerMatchup == [PromptMatchup EXCEPT !.away_team_id = Id(7)]

BracketPromptArgs ==
    [teams : {PromptTeams}, ctx : {RequestContext}, total_teams : {Len(PromptTeams)},
     matchups : {<<Some(<<>>), 0>>, <<Some(<<StrangerMatchup>>), 0>>},
     season_phase : {"playoffs"}, playoff_bracket : FlagBrackets,
     all_teams : {Some(PromptTeams)}]

BracketInit ==
    /\ pargs \in BracketPromptArgs
    /\ prompt = NoPrompt
    /\ ppc = "args"
    /\ HIdle
    /\ DIdle

\* _format_playoff_bracket_section called on its own, as the tests call it.
FormatBracket ==
    /\ ppc = "args"
    /\ prompt' = [NoPrompt EXCEPT !.bracket_section =
                     _format_playoff_bracket_section(pargs.playoff_bracket, pargs.all_teams.list)]
    /\ ppc' = "bracket"
    /\ UNCHANGED <<pargs, hvars, dvars>>

\* _build_playoff_roasting_approach called on its own; it iterates over the
\* bracket, and its one caller hands it a non-empty one (line 346).
BuildApproach ==
    /\ ppc = "args"
    /\ Truthy(pargs.playoff_bracket)
    /\ prompt' = [NoPrompt EXCEPT !.roasting_approach =
                     _build_playoff_roasting_approach(pargs.playoff_bracket, pargs.all_teams.list)]
    /\ ppc' = "approach"
    /\ UNCHANGED <<pargs, hvars, dvars>>

BracketNext ==
    \/ BuildPrompt
    \/ FormatBracket
    \/ BuildApproach

BracketSpec == BracketInit /\ [][BracketNext]_vars

-----------------------------------------------------------------------------
(* Response texts explored by DecodeSpec: a mapping of up to MaxKeys keys  *)
(* serialized on one line or over several lines, bare or between a         *)
(* leading and a trailing fence, with whitespace around the whole.         *)

RoastKeys == {Str(i) : i \in 1..MaxKeys}

RoastTexts == {"roast a", "roast b"}

\* The members of a dictionary in the order of its keys' insertion.
PairLists ==
    UNION {{l \in [1..n -> RoastKeys \X RoastTexts] :
               \A i, j \in 1..n : i # j => l[i][1] # l[j][1]} : n \in 0..MaxKeys}

\* A serialization of the dictionary: json.dumps(d), or json.dumps(d, indent=2).
Serialize(pairs, lines) ==
    IF lines = "one" THEN <<Tok("object", pairs)>>
    ELSE <<Tok("open", <<>>), NL, Tok("members", pairs), NL, Tok("close", <<>>)>>

\* What stands before the serialization: nothing, a fence that ends its
\* line (with or without a language tag), or a fence on the line of the
\* serialization (next to it, or a space apart).
Opening(wrap) ==
    CASE wrap = "bare"     -> <<>>
      [] wrap = "line"     -> <<Fence, NL>>
      [] wrap = "tagline"  -> <<Fence, Tag, NL>>
      [] wrap = "adjacent" -> <<Fence>>
      [] OTHER             -> <<Fence, SP>>

\* What stands after it: nothing, or a fence on a line of its own, next to
\* the serialization, or a space apart.
Closing(wrap, close) ==
    IF wrap = "bare" THEN <<>>
    ELSE CASE close = "line"     -> <<NL, Fence>>
           [] close = "adjacent" -> <<Fence>>
           [] OTHER              -> <<SP, Fence>>

Wraps == {"bare", "line", "tagline", "adjacent", "spaced"}

Closes == {"line", "adjacent", "spaced"}

Margins == {<<>>, <<SP>>, <<NL>>}

Replies ==
    {[pairs |-> ps, lines |-> ln, wrap |-> w, close |-> c,
      text |-> lead \o Opening(w) \o Serialize(ps, ln) \o Closing(w, c) \o trail] :
        ps \in PairLists, ln \in {"one", "several"}, w \in Wraps, c \in Closes,
        lead \in Margins, trail \in Margins}

DInit ==
    /\ reply \in Replies
    /\ decoded = NoDecoded
    /\ dpc = "text"

\* _call_bedrock from the text of the response on (lines 437-447).
Decode ==
    /\ dpc = "text"
    /\ decoded' = DecodeText(reply.text)
    /\ dpc' = "decoded"
    /\ UNCHANGED <<reply, hvars, pvars>>

DecodeInit == DInit /\ HIdle /\ PIdle

DecodeNext == Decode

DecodeSpec == DecodeInit /\ [][DecodeNext]_vars

-----------------------------------------------------------------------------
(* Arguments of _build_prompt explored by OptionalSpec: every optional key *)
(* of the context and of the first team is present or missing, every       *)
(* optional argument is given or left at its default None.                 *)

\* The dictionary d without the keys of the set ks.
Drop(d, ks) == [x \in DOMAIN d \ ks |-> d[x]]

TeamOptionalKeys == {"points_for", "points_against", "streak", "top_players"}

PlayerSummary == [name |-> "Player X", position |-> "QB", points |-> 20]

\* A team with every optional key; top_players holds n players.
WholeTeam(i, name, n) ==
    [id |-> i, hasName |-> TRUE, name |-> name, owner |-> "Owner", record |-> "5-3",
     points_for |-> 900, points_against |-> 850, streak |-> "W2",
     top_players |-> [k \in 1..n |-> PlayerSummary]]

\* The first team with any set of its optional keys missing and a list of
\* no or one top player, followed by a team with every key.
OptionalTeams ==
    {<<Drop(WholeTeam(1, "Eagles", n), ks), WholeTeam(2, "Bears", 1)>> :
        n \in 0..1, ks \in SUBSET TeamOptionalKeys}

Joke == [term |-> "The Trade", explanation |-> "a trade nobody forgets"]

Personality == [player_name |-> "Dana", description |-> "never sets a lineup"]

\* A punishment, or the very text the code takes for its default.
SackoTexts == {"wear a dress", "not specified"}

ContextOptionalKeys == {"inside_jokes", "personalities", "culture_notes"}

\* A context with every key; the lists hold n entries.
WholeContext(sacko, n) ==
    [sacko_punishment |-> sacko, inside_jokes |-> [k \in 1..n |-> Joke],
     personalities |-> [k \in 1..n |-> Personality], culture_notes |-> "trash talk welcome"]

OptionalContexts ==
    {Drop(WholeContext(sacko, n), ks) :
        sacko \in {[isNone |-> TRUE, s |-> ""]} \cup {[isNone |-> FALSE, s |-> x] : x \in SackoTexts},
        n \in 0..1, ks \in SUBSET ContextOptionalKeys}

OptionalPromptArgs ==
    [teams : OptionalTeams, ctx : OptionalContexts, total_teams : {2},
     matchups : {<<None, 0>>, <<Some(<<PromptMatchup>>), 0>>, <<Some(<<PromptMatchup>>), 3>>},
     season_phase : {"regular_season", "playoffs", "offseason"},
     playoff_bracket : {None, Some(<<BracketEntry(1, FALSE, FALSE, TRUE)>>)},
     all_teams : {None}]

OptionalInit ==
    /\ pargs \in OptionalPromptArgs
    /\ prompt = NoPrompt
    /\ ppc = "args"
    /\ HIdle
    /\ DIdle

OptionalNext == BuildPrompt

OptionalSpec == OptionalInit /\ [][OptionalNext]_vars

-----------------------------------------------------------------------------
(* Properties of _build_prompt, checked under PromptSpec.                  *)

Built == ppc = "built"

\* The condition of playoffs mode as the specification words it.
PlayoffCase ==
    /\ pargs.season_phase = "playoffs"
    /\ ~pargs.playoff_bracket.isNone
    /\ Len(pargs.playoff_bracket.list) > 0

\* Every line of the prompt that depends on the mode or on the data sections.
PromptLines(p) ==
    p.roasting_approach \o p.matchups_section \o p.bracket_section \o p.all_extra_requirements

HasLine(lines, t) == \E i \in 1..Len(lines) : lines[i].t = t

PlayoffRequirementsIn(p) ==
    {r \in Range(playoff_requirements) : r \in Range(PromptLines(p))}

\* C1: the playoff approach text (PLAYOFF MODE), the PLAYOFF BRACKET section
\* and the playoff requirement lines are all in the prompt when season_phase
\* is "playoffs" and the bracket list is non-empty, and none of them is in
\* the prompt in every other case (bracket absent, empty, or another phase).
C1_PlayoffModeIff ==
    Built =>
        /\ HasLine(prompt.roasting_approach, "=== ROASTING APPROACH (PLAYOFF MODE) ===")
            <=> PlayoffCase
        /\ HasLine(PromptLines(prompt), "=== ROASTING APPROACH (PLAYOFF MODE) ===")
            <=> PlayoffCase
        /\ HasLine(prompt.bracket_section, "=== PLAYOFF BRACKET ===") <=> PlayoffCase
        /\ HasLine(PromptLines(prompt), "=== PLAYOFF BRACKET ===") <=> PlayoffCase
        /\ PlayoffRequirementsIn(prompt) =
            (IF PlayoffCase THEN Range(playoff_requirements) ELSE {})

C1_Witness ==
    /\ Built
    /\ PlayoffCase
    /\ Len(pargs.playoff_bracket.list) = MaxBracket
    /\ HasLine(prompt.roasting_approach, "=== ROASTING APPROACH (PLAYOFF MODE) ===")
    /\ HasLine(prompt.bracket_section, "=== PLAYOFF BRACKET ===")
    /\ PlayoffRequirementsIn(prompt) = Range(playoff_requirements)

\* The phases and brackets C2 speaks of.
FallbackCase ==
    \/ pargs.season_phase = "playoffs" /\ ~Truthy(pargs.playoff_bracket)
    \/ pargs.season_phase \notin {"playoffs", "offseason"}

\* C2: with season_phase "playoffs" and an empty or absent bracket, and with
\* any season_phase other than "playoffs" and "offseason" whatever the
\* bracket, the prompt is the one built from the same arguments with
\* season_phase "regular_season".
C2_FallbackIsRegularSeason ==
    Built /\ FallbackCase =>
        prompt = BuildPromptOf([pargs EXCEPT !.season_phase = "regular_season"])

C2_Witness ==
    /\ Built
    /\ pargs.season_phase = "playoffs"
    /\ pargs.playoff_bracket = Some(<<>>)
    /\ pargs.matchups[1] # None
    /\ prompt.roasting_approach[1] = Copy("=== ROASTING APPROACH ===")
    /\ prompt.bracket_section = <<>>

HasNumbers(l) == l.n # <<>>

\* The three tier lines of the tier template, TOP, MIDDLE, BOTTOM.
TierLines(p) == SelectSeq(p.roasting_approach, HasNumbers)

\* The rank bands the tier lines of prompt p announce for n teams.
TopBand(p, n) == 1..TierLines(p)[1].n[1]

MiddleBand(p, n) == TierLines(p)[2].n[1]..TierLines(p)[2].n[2]

BottomBand(p, n) == TierLines(p)[3].n[1]..n

BandsOf(p, n, r) ==
    {b \in {"TOP", "MIDDLE", "BOTTOM"} :
        \/ b = "TOP" /\ r \in TopBand(p, n)
        \/ b = "MIDDLE" /\ r \in MiddleBand(p, n)
        \/ b = "BOTTOM" /\ r \in BottomBand(p, n)}

\* C3: for every team count n >= 1 the tier template carries top_cutoff = 3
\* and mid_cutoff = min(7, n - 1), and every rank of 1..n lies in exactly one
\* of the bands TOP, MIDDLE, BOTTOM it announces.
C3_TierBandsPartition ==
    Built /\ ~PlayoffCase =>
        LET n == pargs.total_teams IN
        /\ Len(TierLines(prompt)) = 3
        /\ TierLines(prompt)[1].n = <<3>>
        /\ TierLines(prompt)[2].n = <<4, Min(7, n - 1)>>
        /\ TierLines(prompt)[3].n = <<Min(7, n - 1) + 1>>
        /\ \A r \in 1..n : Cardinality(BandsOf(prompt, n, r)) = 1

-----------------------------------------------------------------------------
(* Properties of handler and _generate_roasts_parallel, checked under      *)
(* Spec.                                                                   *)

Returned == pc = "done"

\* The batches for which bedrock.invoke_model has been called.
CallsMade == {b \in DOMAIN calls : calls[b] > 0}

\* The generation call of batch b gave a text that does not decode into a
\* per-team mapping: it is not JSON, or it is JSON but not an object.
Undecodable(b) == future[b].exc = "JSONDecodeError" \/ future[b].val = ArrVal

\* C4: when the text returned for some batch cannot be decoded into a
\* per-team mapping, the handler answers 500 "Failed to generate roasts".
C4_UndecodableIsServerError ==
    Returned /\ (\E b \in DOMAIN future : Undecodable(b)) =>
        /\ response.statusCode = 500
        /\ response.error = "Failed to generate roasts"

\* C5: a 200 response carries a mapping whose key set is the set of ids of
\* the request's teams, and every batch's call has resolved by then.
C5_OneEntryPerRequestedTeam ==
    Returned /\ response.statusCode = 200 =>
        /\ response.roasts.kind = "mapping"
        /\ DOMAIN response.roasts.map = Range(event.list)
        /\ \A b \in DOMAIN future : future[b].state = "done"

Perms(n) == {p \in [1..n -> 1..n] : \A i, j \in 1..n : p[i] = p[j] => i = j}

\* The merge map after the futures are taken in the order p.
RECURSIVE MergedInOrder(_, _)
MergedInOrder(p, k) ==
    IF k = 0 THEN EmptyMap
    ELSE DictUpdate(MergedInOrder(p, k - 1), future[p[k]].val.map)

\* C6: with two or more batches, the mapping _generate_roasts_parallel
\* returns is the mapping every order of completion of the batches' calls
\* gives.
C6_MergeOrderIndependent ==
    Returned /\ Len(batches) >= 2 /\ response.statusCode = 200 =>
        \A p \in Perms(Len(batches)) : MergedInOrder(p, Len(batches)) = response.roasts.map

\* The generation call of batch b failed: the capability raised, or its
\* text did not parse.
Failed(b) == future[b].exc # "none"

\* C7: if the call of any batch fails, whatever the interleaving, the
\* operation yields no mapping: the response is an error response without
\* roasts, also when other batches succeeded and were merged already.
C7_AnyBatchFailureFailsAll ==
    Returned /\ (\E b \in DOMAIN future : Failed(b)) =>
        /\ response.statusCode \in {400, 500}
        /\ response.error # ""
        /\ response.roasts = NoVal
        /\ Len(batches) >= 2 => raised # "none"

C7_Witness ==
    /\ Returned
    /\ Len(batches) >= 2
    /\ \E b \in DOMAIN future : Failed(b) /\ b \in consumed
    /\ \E b \in consumed : ~Failed(b)
    /\ merged # EmptyMap
    /\ response.roasts = NoVal
    /\ response.statusCode = 500

\* The request decodes to an object whose team list is empty or missing.
EmptyOrMissingTeams ==
    \/ event.body = "nokey"
    \/ event.body = "object" /\ (event.teams # "list" \/ event.list = <<>>)

\* C8: a request whose team list is empty or missing is answered 400, and
\* at no time is a batch formed or a generation call made for it.
C8_NoTeamsIsClientError ==
    EmptyOrMissingTeams =>
        /\ CallsMade = {}
        /\ future = <<>>
        /\ Returned => response.statusCode = 400 /\ response.roasts = NoVal

C8_Witness ==
    /\ Returned
    /\ event.body = "object"
    /\ event.teams = "list"
    /\ event.list = <<>>
    /\ response = _response(400, "No teams provided", NoVal)
    /\ CallsMade = {}

\* C9: an envelope that does not decode to the expected structure (not
\* parseable, null, or not an object) is answered 400.
C9_MalformedEnvelopeIsClientError ==
    Returned /\ event.body \in {"unparseable", "null", "nonobject"} =>
        response.statusCode = 400

\* The request reached _generate_roasts_parallel.
Accepted == event.body = "object" /\ event.teams = "list" /\ event.list # <<>>

\* C10: for a team list of length n >= 1 the batches are consecutive chunks
\* in the original order: together they give back the list, every batch
\* but the last has BATCH_SIZE teams, the last has 1..BATCH_SIZE, and every
\* team is in exactly one batch.
C10_BatchesAreConsecutiveChunks ==
    Accepted /\ pc # "entry" =>
        /\ Concat(batches) = event.list
        /\ Len(batches) >= 1
        /\ \A j \in 1..(Len(batches) - 1) : Len(batches[j]) = BATCH_SIZE
        /\ Len(batches[Len(batches)]) \in 1..BATCH_SIZE
        /\ \A x \in Range(event.list) :
              Cardinality({j \in 1..Len(batches) : x \in Range(batches[j])}) = 1

C10_Witness ==
    /\ Returned
    /\ Len(event.list) = MaxTeams
    /\ Len(batches) = (MaxTeams + BATCH_SIZE - 1) \div BATCH_SIZE
    /\ event.list[1] > event.list[2]
    /\ batches[2] = <<event.list[3], event.list[4]>>


-----------------------------------------------------------------------------
(* Claims about the prompt of each batch (Spec).                           *)

\* The team of the away side of the request's matchup is not in batch b.
AwayOutside(b) ==
    /\ event.matchups = "list"
    /\ event.list[Len(event.list)] \notin Range(batches[b])

C12_KeysAreTheBatchIds ==
    \A b \in DOMAIN prompts :
        /\ prompts[b].id_list = Slice(event.list, (b - 1) * BATCH_SIZE, b * BATCH_SIZE)
        /\ \A i \in Range(event.list) \ Range(batches[b]) : i \notin Range(prompts[b].id_list)

\* A list in descending order of id, split in three batches: the keys of
\* the second prompt are the third and fourth ids of the list, in that
\* order.
C12_Witness ==
    /\ Len(prompts) = 3
    /\ event.list[1] > event.list[2]
    /\ prompts[2].id_list = <<event.list[3], event.list[4]>>
    /\ event.list[1] \notin Range(prompts[2].id_list)


-----------------------------------------------------------------------------
(* Claims about the matchup section (MatchupSpec).                         *)

Formatted == ppc = "formatted"

SideTag == "  {team_name} -- {score:.1f} pts ({result})"

StarterTag == "    {name} ({pos}): {pts:.1f} pts{marker}"

\* The position in a matchup section of the line that opens its j-th side
\* (home and away of the first matchup, home and away of the second, ...).
SideAt(sec, j) ==
    CHOOSE i \in DOMAIN sec :
        /\ sec[i].t = SideTag
        /\ Cardinality({k \in 1..i : sec[k].t = SideTag}) = j

\* The lines of the j-th side, from the line after its opening line to the
\* line before the empty line that closes it.
Block(sec, j) ==
    LET i == SideAt(sec, j)
        end == CHOOSE e \in (i + 1)..Len(sec) :
                  /\ sec[e] = Copy("")
                  /\ \A k \in (i + 1)..(e - 1) : sec[k] # Copy("")
    IN  SubSeq(sec, i + 1, end - 1)

\* The player list given for the j-th side.
InputSide(ms, j) ==
    IF j % 2 = 1 THEN PlayersGet(ms[(j + 1) \div 2], "home_players")
    ELSE PlayersGet(ms[(j + 1) \div 2], "away_players")

DistinctPoints(st) == \A a, b \in DOMAIN st : a # b => st[a].points # st[b].points

MarkedLines(blk, marker) == {i \in DOMAIN blk : blk[i].t = StarterTag /\ blk[i].s[3] = marker}

\* C13: for every matchup and each side with at least two starters whose
\* point values are pairwise distinct, exactly one starter line carries
\* the TOP SCORER marker and it is the line of the starter with the most
\* points, exactly one carries the BIGGEST BUST marker and it is the line
\* of the starter with the fewest points, and no line carries both.
C13_OneTopOneBust ==
    (Built \/ Formatted) /\ Truthy(pargs.matchups[1]) =>
        \A j \in 1..(2 * Len(pargs.matchups[1].list)) :
            LET st == SelectSeq(InputSide(pargs.matchups[1].list, j), IsStarter)
                blk == Block(prompt.matchups_section, j)
                tops == MarkedLines(blk, " TOP SCORER")
                busts == MarkedLines(blk, " BIGGEST BUST")
            IN  Len(st) >= 2 /\ DistinctPoints(st) =>
                  /\ Cardinality(tops) = 1
                  /\ Cardinality(busts) = 1
                  /\ tops \cap busts = {}
                  /\ \A i \in tops : \E k \in DOMAIN st :
                        /\ blk[i].s[1] = st[k].name
                        /\ blk[i].n = <<st[k].points>>
                        /\ \A x \in DOMAIN st : st[x].points <= st[k].points
                  /\ \A i \in busts : \E k \in DOMAIN st :
                        /\ blk[i].s[1] = st[k].name
                        /\ blk[i].n = <<st[k].points>>
                        /\ \A x \in DOMAIN st : st[x].points >= st[k].points

\* An away side of three starters with distinct points, the best of them
\* listed second: the second line is the top scorer, one of the others the
\* bust, the remaining one unmarked.
C13_Witness ==
    /\ Built
    /\ Truthy(pargs.matchups[1])
    /\ LET st == SelectSeq(InputSide(pargs.matchups[1].list, 2), IsStarter)
           blk == Block(prompt.matchups_section, 2)
       IN  /\ Len(st) = 3
           /\ DistinctPoints(st)
           /\ st[2].points > st[3].points
           /\ st[3].points > st[1].points
           /\ blk[1].s[3] = " BIGGEST BUST"
           /\ blk[2].s[3] = " TOP SCORER"
           /\ blk[3].s[3] = ""

NoMatchups == pargs.matchups[1].isNone \/ pargs.matchups[1].list = <<>>

\* C14: _format_matchups_section returns the empty string if and only if
\* the matchup list is empty or absent, and the prompt _build_prompt
\* returns then has no MATCHUPS section and no matchup-specific
\* requirement line.
C14_EmptySectionIffNoMatchups ==
    /\ Formatted => (prompt.matchups_section = <<>> <=> NoMatchups)
    /\ Built /\ NoMatchups =>
          /\ prompt.matchups_section = <<>>
          /\ \A i \in DOMAIN prompt.all_extra_requirements :
                prompt.all_extra_requirements[i] \notin Range(matchup_requirements)

\* The function has been called with the empty list and returned "".
C14_Witness ==
    /\ Formatted
    /\ ~pargs.matchups[1].isNone
    /\ pargs.matchups[1].list = <<>>
    /\ prompt.matchups_section = <<>>

\* C19: for every matchup the outcome labels of home and away are
\* (WIN, LOSS) when home_score is strictly greater than away_score,
\* (LOSS, WIN) when it is strictly less and (TIE, TIE) when the scores are
\* equal; exactly one case applies and each side's line shows the label,
\* the name and the score of that side.
C19_OutcomeLabels ==
    (Built \/ Formatted) /\ Truthy(pargs.matchups[1]) =>
        \A k \in 1..Len(pargs.matchups[1].list) :
            LET m == pargs.matchups[1].list[k]
                sec == prompt.matchups_section
                home == sec[SideAt(sec, 2 * k - 1)]
                away == sec[SideAt(sec, 2 * k)]
                head == sec[SideAt(sec, 2 * k - 1) - 2]
                labels == <<home.s[2], away.s[2]>>
            IN  /\ m.home_score > m.away_score => labels = <<"WIN", "LOSS">>
                /\ m.home_score < m.away_score => labels = <<"LOSS", "WIN">>
                /\ m.home_score = m.away_score => labels = <<"TIE", "TIE">>
                /\ labels \in {<<"WIN", "LOSS">>, <<"LOSS", "WIN">>, <<"TIE", "TIE">>}
                /\ home.n = <<m.home_score>>
                /\ away.n = <<m.away_score>>
                /\ <<home.s[1], away.s[1]>> = head.s

\* A matchup the home team lost: its line reads LOSS, the away line WIN.
C19_Witness ==
    /\ Formatted
    /\ Truthy(pargs.matchups[1])
    /\ LET m == pargs.matchups[1].list[1]
           sec == prompt.matchups_section
       IN  /\ m.home_score < m.away_score
           /\ sec[SideAt(sec, 1)].s = <<"Eagles", "LOSS">>
           /\ sec[SideAt(sec, 2)].s[2] = "WIN"


-----------------------------------------------------------------------------
(* Claims about the approach text outside playoffs mode (PromptSpec).      *)

\* The regular-season tier template as the prompt shows it: the header and
\* the three tier lines with their copy, their ranks and the closing
\* sentence of the bottom tier.
IsRegularTemplate(text, total_teams, sacko) ==
    /\ Len(text) = 4
    /\ text[1] = Copy("=== ROASTING APPROACH ===")
    /\ text[2] = Line("TOP TIER (ranks 1-{top_cutoff}): Celebrate success with backhanded compliments.",
                      <<3>>, <<>>)
    /\ text[3] = Line("MIDDLE TIER (ranks {top_cutoff + 1}-{mid_cutoff}): These are the frauds.",
                      <<4, Min(7, total_teams - 1)>>, <<>>)
    /\ text[4].t = "BOTTOM TIER (ranks {mid_cutoff + 1}+): Absolute destruction. {sentence}"
    /\ text[4].n = <<Min(7, total_teams - 1) + 1>>
    /\ text[4].s = <<IF sacko # "not specified"
                      THEN "The sacko punishment (" \o sacko \o ") is looming -- remind them VIVIDLY."
                      ELSE "They are not tanking, they are just bad.">>

\* C18 as stated: for every season_phase and every bracket for which it is
\* not the case that season_phase is "playoffs" and the bracket is
\* non-empty, the approach text is the regular-season tier template.
C18_AnyOtherCombinationIsRegular ==
    Built /\ ~PlayoffCase =>
        IsRegularTemplate(prompt.roasting_approach, pargs.total_teams, Sacko(pargs.ctx))

\* C18 amended: the same for every season_phase other than "offseason";
\* with season_phase "offseason" the approach text is the offseason tier
\* template, whatever the bracket.
C18_OtherThanOffseasonIsRegular ==
    /\ Built /\ ~PlayoffCase /\ pargs.season_phase # "offseason" =>
          IsRegularTemplate(prompt.roasting_approach, pargs.total_teams, Sacko(pargs.ctx))
    /\ Built /\ pargs.season_phase = "offseason" =>
          /\ prompt.roasting_approach[1] = Copy("=== ROASTING APPROACH (OFFSEASON MODE) ===")
          /\ ~IsRegularTemplate(prompt.roasting_approach, pargs.total_teams, Sacko(pargs.ctx))

\* An unrecognised phase with a bracket of two entries gives the regular
\* template.
C18_Witness ==
    /\ Built
    /\ pargs.season_phase = "preseason"
    /\ Truthy(pargs.playoff_bracket)
    /\ Len(pargs.playoff_bracket.list) = 2
    /\ IsRegularTemplate(prompt.roasting_approach, pargs.total_teams, Sacko(pargs.ctx))


-----------------------------------------------------------------------------
(* Claims about the bracket section and the playoff approach text          *)
(* (BracketSpec).                                                          *)

BracketFormatted == ppc = "bracket"

ApproachBuilt == ppc = "approach"

Entries == pargs.playoff_bracket.list

ChampTag == "  #{seed} {name} vs {opp_name}"

WinTag == "  #{seed} {name} (Round {rnd}) vs {opp_name}{eliminated}"

ConsTag == "  #{seed} {name}{eliminated}"

Headings == {"CHAMPIONSHIP MATCHUP:", "WINNERS BRACKET:", "CONSOLATION BRACKET (the losers' lounge):"}

\* The positions of the lines of a bracket section that render the entry
\* of seed i.
LinesOf(sec, i) ==
    {k \in DOMAIN sec : sec[k].t \in {ChampTag, WinTag, ConsTag} /\ sec[k].n[1] = i}

\* The heading the line at position k stands under.
HeadingOver(sec, k) ==
    LET h == CHOOSE h \in 1..k :
                /\ sec[h].t \in Headings
                /\ \A g \in (h + 1)..k : sec[g].t \notin Headings
    IN  sec[h].t

\* The group of an entry by the rule championship, else consolation, else
\* winners.
RuleHeading(e) ==
    IF e.is_championship THEN "CHAMPIONSHIP MATCHUP:"
    ELSE IF e.is_consolation THEN "CONSOLATION BRACKET (the losers' lounge):"
    ELSE "WINNERS BRACKET:"

\* The name of team i in the team list of the prompt, "Team {i}" when the
\* list does not hold it.
DirectoryName(i) ==
    IF \E k \in DOMAIN PromptTeams : PromptTeams[k].id = i
    THEN PromptTeams[CHOOSE k \in DOMAIN PromptTeams : PromptTeams[k].id = i].name
    ELSE "Team " \o Str(i)

DirectoryNames(es) == Join([k \in 1..Len(es) |-> DirectoryName(es[k].team_id.v)])

\* C15: every bracket entry is rendered in exactly one of the three groups
\* of the bracket section: under the championship heading when
\* is_championship is set, otherwise under the consolation heading when
\* is_consolation is set, otherwise under the winners heading; an entry
\* with both flags set stands under the championship heading only.
C15_OneGroupPerEntry ==
    (Built \/ BracketFormatted) /\ Truthy(pargs.playoff_bracket) =>
        \A i \in DOMAIN Entries :
            /\ Cardinality(LinesOf(prompt.bracket_section, i)) = 1
            /\ \A k \in LinesOf(prompt.bracket_section, i) :
                  HeadingOver(prompt.bracket_section, k) = RuleHeading(Entries[i])

\* C16: in the championship and winners groups the opponent of an entry is
\* "TBD" when opponent_team_id is absent, null or empty, and otherwise the
\* name of that team, "Team {id}" when the team list does not hold it.
C16_OpponentOrTBD ==
    (Built \/ BracketFormatted) /\ Truthy(pargs.playoff_bracket) =>
        \A i \in DOMAIN Entries :
            \A k \in LinesOf(prompt.bracket_section, i) :
                prompt.bracket_section[k].t \in {ChampTag, WinTag} =>
                    prompt.bracket_section[k].s[2] =
                        IF Entries[i].opponent_team_id.p \in {"absent", "null", "empty"}
                        THEN "TBD"
                        ELSE DirectoryName(Entries[i].opponent_team_id.v)

\* The names the matchup section gives the two teams of its matchups.
MatchupNamesResolved ==
    Truthy(pargs.matchups[1]) =>
        \A k \in 1..Len(pargs.matchups[1].list) :
            LET sec == prompt.matchups_section
                m == pargs.matchups[1].list[k]
            IN  sec[SideAt(sec, 2 * k - 1) - 2].s =
                    <<DirectoryName(m.home_team_id.v), DirectoryName(m.away_team_id.v)>>

\* The names the bracket section gives the teams of its entries.
BracketNamesResolved ==
    \A i \in DOMAIN Entries :
        \A k \in LinesOf(prompt.bracket_section, i) :
            prompt.bracket_section[k].s[1] = DirectoryName(Entries[i].team_id.v)

ChampSubTag == "CHAMPIONSHIP CONTENDERS ({champ_names})"

ElimSubTag == "ELIMINATED ({eliminated_names})"

SubLines(text, tag) == {k \in DOMAIN text : text[k].t = tag}

\* The names the playoff approach text gives the championship and the
\* eliminated teams.
ApproachNamesResolved ==
    /\ \A k \in SubLines(prompt.roasting_approach, ChampSubTag) :
          prompt.roasting_approach[k].s =
              <<DirectoryNames(SelectSeq(Entries, IsChampionship))>>
    /\ \A k \in SubLines(prompt.roasting_approach, ElimSubTag) :
          prompt.roasting_approach[k].s =
              <<DirectoryNames(SelectSeq(Entries, IsEliminated))>>

\* C17: in the matchup section, in the bracket section and in the playoff
\* approach text alike, a team id the team list does not hold is rendered
\* "Team {id}" (and an id it holds by its name); no formatter fails.
C17_UniformNameFallback ==
    Built /\ Truthy(pargs.playoff_bracket) =>
        /\ MatchupNamesResolved
        /\ BracketNamesResolved
        /\ ApproachNamesResolved

\* C20: in playoffs mode each of the four sub-sections of the approach
\* text is written if and only if some bracket entry is in its group
\* (championship: is_championship; active: none of the three flags;
\* consolation: is_consolation and not is_eliminated; eliminated:
\* is_eliminated), and the championship and the eliminated sub-section
\* name the teams of their group, in bracket order.
C20_SubsectionsFollowGroups ==
    (Built \/ ApproachBuilt) /\ Truthy(pargs.playoff_bracket) =>
        LET text == prompt.roasting_approach IN
        /\ SubLines(text, ChampSubTag) # {} <=> \E i \in DOMAIN Entries : Entries[i].is_championship
        /\ SubLines(text, "ACTIVE BRACKET") # {} <=>
              \E i \in DOMAIN Entries :
                  /\ ~Entries[i].is_championship
                  /\ ~Entries[i].is_consolation
                  /\ ~Entries[i].is_eliminated
        /\ SubLines(text, "CONSOLATION BRACKET") # {} <=>
              \E i \in DOMAIN Entries : Entries[i].is_consolation /\ ~Entries[i].is_eliminated
        /\ SubLines(text, ElimSubTag) # {} <=> \E i \in DOMAIN Entries : Entries[i].is_eliminated
        /\ \A tag \in {ChampSubTag, "ACTIVE BRACKET", "CONSOLATION BRACKET", ElimSubTag} :
              Cardinality(SubLines(text, tag)) <= 1
        /\ ApproachNamesResolved


-----------------------------------------------------------------------------
(* Claims about the requirement lines (PromptSpec).                        *)

RequirementsIn(p, reqs) == {r \in Range(reqs) : r \in Range(p.all_extra_requirements)}

\* C21: the matchup requirement lines are in the prompt if and only if
\* the matchup list is non-empty, whatever the mode; the playoff
\* requirement lines are in it if and only if the mode is playoffs; in
\* playoffs mode with matchups both sets are in it, and no other line is
\* among the extra requirements.
C21_RequirementLines ==
    Built =>
        /\ RequirementsIn(prompt, matchup_requirements) =
              (IF ~NoMatchups THEN Range(matchup_requirements) ELSE {})
        /\ RequirementsIn(prompt, playoff_requirements) =
              (IF PlayoffCase THEN Range(playoff_requirements) ELSE {})
        /\ Len(prompt.all_extra_requirements) =
              Cardinality(RequirementsIn(prompt, matchup_requirements))
              + Cardinality(RequirementsIn(prompt, playoff_requirements))

\* Playoffs mode with a matchup list: the three matchup lines and the five
\* playoff lines are all there.
C21_Witness ==
    /\ Built
    /\ PlayoffCase
    /\ ~NoMatchups
    /\ pargs.matchups[2] = 3
    /\ Len(prompt.all_extra_requirements) = 8
    /\ RequirementsIn(prompt, matchup_requirements) = Range(matchup_requirements)
    /\ RequirementsIn(prompt, playoff_requirements) = Range(playoff_requirements)


-----------------------------------------------------------------------------
(* Claims about the decoding of a response text (DecodeSpec).              *)

Decoded == dpc = "decoded"

\* The mapping the response text serializes.
Serialized ==
    [key \in {reply.pairs[i][1] : i \in 1..Len(reply.pairs)} |->
        reply.pairs[CHOOSE i \in 1..Len(reply.pairs) : reply.pairs[i][1] = key][2]]

RoundTrip == decoded = [exc |-> "none", val |-> MapVal(Serialized)]

\* The serialization starts on the line of the leading fence and that
\* line is not the last: the serialization spans several lines, or the
\* trailing fence stands on a line of its own.
StartsOnFenceLine ==
    /\ reply.wrap \in {"adjacent", "spaced"}
    /\ reply.lines = "several" \/ reply.close = "line"

\* C22 as stated: for every mapping from team-id strings to roast text,
\* decoding the text that serializes it, bare or between a leading and a
\* trailing fence with whitespace around, gives back exactly that mapping.
C22_RoundTripEveryText == Decoded => RoundTrip

\* C22 amended: the same for the bare text, for the text whose leading
\* fence ends its line (alone or with a language tag) and for the text
\* of one line that holds both fences and the serialization; a text
\* whose serialization starts on the line of the leading fence and goes
\* on after that line loses the line and is not decoded.
C22_RoundTripFenceLine ==
    /\ Decoded /\ ~StartsOnFenceLine => RoundTrip
    /\ Decoded /\ StartsOnFenceLine => decoded = [exc |-> "JSONDecodeError", val |-> NoVal]

\* Two roasts serialized over several lines between a tagged fence line
\* and a closing fence line, with a newline before and after: decoded to
\* the mapping of the two.
C22_Witness ==
    /\ Decoded
    /\ Len(reply.pairs) = 2
    /\ reply.lines = "several"
    /\ reply.wrap = "tagline"
    /\ reply.close = "line"
    /\ reply.text[1] = NL
    /\ reply.text[Len(reply.text)] = NL
    /\ decoded.exc = "none"
    /\ DOMAIN decoded.val.map = {"1", "2"}
    /\ RoundTrip


-----------------------------------------------------------------------------
(* Claims about the starter lines of a side (MatchupSpec).                 *)

\* The first starter, in input order, whose points no starter exceeds.
FirstMax(st) ==
    CHOOSE i \in DOMAIN st :
        /\ \A x \in DOMAIN st : st[x].points <= st[i].points
        /\ \A x \in DOMAIN st : st[x].points = st[i].points => i <= x

\* The first starter, in input order, whose points no starter undercuts.
FirstMin(st) ==
    CHOOSE i \in DOMAIN st :
        /\ \A x \in DOMAIN st : st[x].points >= st[i].points
        /\ \A x \in DOMAIN st : st[x].points = st[i].points => i <= x

\* C23: on every side with at least one starter, TOP SCORER marks the
\* first starter in input order among those with the most points and
\* BIGGEST BUST the first among those with the fewest; when the two are
\* the same starter (one starter, or all starters level) that line is
\* marked TOP SCORER only and no line is marked BIGGEST BUST.
C23_MarkersByScanOrder ==
    (Built \/ Formatted) /\ Truthy(pargs.matchups[1]) =>
        \A j \in 1..(2 * Len(pargs.matchups[1].list)) :
            LET st == SelectSeq(InputSide(pargs.matchups[1].list, j), IsStarter)
                blk == Block(prompt.matchups_section, j)
            IN  st # <<>> =>
                  /\ Len(blk) = Len(st)
                  /\ MarkedLines(blk, " TOP SCORER") = {FirstMax(st)}
                  /\ MarkedLines(blk, " BIGGEST BUST") =
                        (IF FirstMin(st) = FirstMax(st) THEN {} ELSE {FirstMin(st)})
                  /\ \A i \in DOMAIN blk :
                        i \notin {FirstMax(st), FirstMin(st)} => blk[i].s[3] = ""

\* A home side of three starters, the first two level at the bottom: the
\* first is the bust, the second unmarked, the third the top scorer.
C23_Witness ==
    /\ Formatted
    /\ Truthy(pargs.matchups[1])
    /\ LET st == SelectSeq(InputSide(pargs.matchups[1].list, 1), IsStarter)
           blk == Block(prompt.matchups_section, 1)
       IN  /\ Len(st) = 3
           /\ st[1].points = st[2].points
           /\ st[3].points > st[1].points
           /\ blk[1].s[3] = " BIGGEST BUST"
           /\ blk[2].s[3] = ""
           /\ blk[3].s[3] = " TOP SCORER"


-----------------------------------------------------------------------------
(* Claims about the headings of the bracket section (BracketSpec).         *)

HeadingOrder ==
    <<"CHAMPIONSHIP MATCHUP:", "WINNERS BRACKET:", "CONSOLATION BRACKET (the losers' lounge):">>

IsHeading(l) == l.t \in Headings

\* The headings of a bracket section, in the order they are written.
HeadingsOf(sec) == [k \in DOMAIN SelectSeq(sec, IsHeading) |-> SelectSeq(sec, IsHeading)[k].t]

\* The positions of the entries the rule puts in the group of heading h.
RuleGroup(h) == {i \in DOMAIN Entries : RuleHeading(Entries[i]) = h}

NonEmptyGroup(h) == RuleGroup(h) # {}

\* The headings of the non-empty groups, in the fixed order.
ExpectedHeadings == SelectSeq(HeadingOrder, NonEmptyGroup)

\* The lines under one heading render entries in the order of the input.
GroupsKeepInputOrder(sec) ==
    \A a, b \in DOMAIN sec :
        /\ sec[a].t \in {ChampTag, WinTag, ConsTag}
        /\ sec[b].t \in {ChampTag, WinTag, ConsTag}
        /\ a < b
        /\ HeadingOver(sec, a) = HeadingOver(sec, b)
        => sec[a].n[1] < sec[b].n[1]

\* C27: for every non-empty bracket the headings of the bracket section
\* are those of the non-empty groups, each once, in the order championship,
\* winners, consolation; at least one heading is written; the entry lines
\* under a heading follow the order of the input list.
C27_HeadingsFollowGroups ==
    (Built \/ BracketFormatted) /\ Truthy(pargs.playoff_bracket) =>
        /\ HeadingsOf(prompt.bracket_section) = ExpectedHeadings
        /\ HeadingsOf(prompt.bracket_section) # <<>>
        /\ GroupsKeepInputOrder(prompt.bracket_section)

-----------------------------------------------------------------------------
(* Claims about the starter lines of a matchup side (MatchupSpec).         *)

\* The player dict carries is_starter and it is true.
StarterTrue(p) == "is_starter" \in DOMAIN p /\ p.is_starter = TRUE

NoStarterLine == Copy("    No starter data available")

\* C26: for every side of every matchup the player lines are exactly the
\* players of the side whose is_starter is true, in the order of the input
\* list, and no other player has a line; a side without a starter (its
\* list is empty, missing, or holds bench players only) has exactly one
\* line, "No starter data available".
C26_StartersInInputOrder ==
    (Built \/ Formatted) /\ Truthy(pargs.matchups[1]) =>
        \A j \in 1..(2 * Len(pargs.matchups[1].list)) :
            LET players == InputSide(pargs.matchups[1].list, j)
                st == SelectSeq(players, StarterTrue)
                blk == Block(prompt.matchups_section, j)
            IN  /\ st # <<>> =>
                      /\ Len(blk) = Len(st)
                      /\ \A i \in DOMAIN st :
                            /\ blk[i].t = StarterTag
                            /\ blk[i].s[1] = st[i].name
                            /\ blk[i].s[2] = st[i].position
                            /\ blk[i].n = <<st[i].points>>
                      /\ NoStarterLine \notin Range(blk)
                /\ st = <<>> => blk = <<NoStarterLine>>
                /\ \A k \in DOMAIN players :
                      ~StarterTrue(players[k]) =>
                          \A i \in DOMAIN blk :
                              blk[i].t = StarterTag => blk[i].s[1] # players[k].name

\* A matchup without away_players whose home side lists a starter, a bench
\* player and a second starter: two lines for the home side, in that order,
\* and the placeholder line for the away side.
C26_Witness ==
    /\ Formatted
    /\ Truthy(pargs.matchups[1])
    /\ Len(pargs.matchups[1].list) = 1
    /\ "away_players" \notin DOMAIN pargs.matchups[1].list[1]
    /\ LET players == InputSide(pargs.matchups[1].list, 1)
           blk == Block(prompt.matchups_section, 1)
       IN  /\ Len(players) = 3
           /\ StarterTrue(players[1])
           /\ ~StarterTrue(players[2])
           /\ StarterTrue(players[3])
           /\ Len(blk) = 2
           /\ blk[1].s[1] = players[1].name
           /\ blk[2].s[1] = players[3].name
    /\ Block(prompt.matchups_section, 2) = <<NoStarterLine>>

-----------------------------------------------------------------------------
(* Claims about the generation calls and the worker pool (Spec).           *)

Concurrent == pc # "entry" /\ Len(batches) >= 2

\* The pool and the tasks of the concurrent path: as many workers as
\* batches, one future and one prompt per batch, and the loop has taken
\* only finished futures, each of them once.
PoolShape ==
    /\ Concurrent =>
          /\ max_workers = Len(batches)
          /\ DOMAIN future = DOMAIN batches
          /\ DOMAIN prompts = DOMAIN future
    /\ Len(order) = Cardinality(consumed)
    /\ consumed = {order[i] : i \in DOMAIN order}
    /\ \A b \in consumed : future[b].state = "done"
    /\ Returned /\ Concurrent /\ raised = "none" => consumed = DOMAIN batches

\* A step of a pool worker: a future of the running pool changes.
WorkerStep == pc \in {"collect", "unwind"} /\ future' # future

\* A worker step finishes the call of one pending task and touches nothing
\* but that future and the count of its calls.
WorkerStepOnlyCalls ==
    WorkerStep =>
        /\ \E b \in DOMAIN future :
              /\ future[b].state = "pending"
              /\ future'[b].state = "done"
              /\ future' = [future EXCEPT ![b] = future'[b]]
              /\ calls' = [calls EXCEPT ![b] = @ + 1]
        /\ UNCHANGED <<pc, batches, merged, consumed, order, raised, response, prompts,
                       max_workers>>

\* The merge map changes only in a step of the as_completed loop, by the
\* value of one finished future the loop had not taken before.
MergedOnlyByLoop ==
    merged' # merged =>
        /\ pc = "collect"
        /\ future' = future
        /\ \E b \in DOMAIN future \ consumed :
              /\ future[b].state = "done"
              /\ consumed' = consumed \cup {b}
              /\ order' = Append(order, b)
              /\ merged' = DictUpdate(merged, future[b].val.map)

\* The prompts are assembled in the handler's step that submits the tasks,
\* when no worker has run, and never change afterwards.
PromptsBeforeSubmit ==
    prompts' # prompts =>
        /\ pc = "entry"
        /\ calls = <<>>
        /\ \/ \A b \in DOMAIN future' : future'[b].state = "pending" /\ calls'[b] = 0
           \/ Len(batches') = 1

-----------------------------------------------------------------------------
(* Claims about the optional inputs of the prompt (OptionalSpec).          *)

\* The key is in the dictionary.
Given(d, key) == key \in DOMAIN d

SackoGiven == ~pargs.ctx.sacko_punishment.isNone

\* The approach text is one of the two tier templates.
TierTemplate ==
    prompt.roasting_approach[1].t \in
        {"=== ROASTING APPROACH ===", "=== ROASTING APPROACH (OFFSEASON MODE) ==="}

\* The sentence that closes the bottom tier of a tier template.
TierSentence == prompt.roasting_approach[Len(prompt.roasting_approach)].s[1]

GenericSentences ==
    {"They are not tanking, they are just bad.",
     "They have nothing to show for an entire season of effort."}

SackoSentences(sacko) ==
    {"The sacko punishment (" \o sacko \o ") is looming -- remind them VIVIDLY.",
     "The sacko punishment (" \o sacko \o ") awaits."}

\* The block of the first team shows every optional key of the team, by
\* its value when the key is there and by its placeholder when it is not.
TeamOptionalsRendered ==
    LET t == pargs.teams[1]
        blk == SubSeq(prompt.teams_text, 1, 3)
    IN  /\ Len(prompt.teams_text) = 3 * Len(pargs.teams)
        /\ blk[1].n = <<t.id>>
        /\ blk[2].s[1] = t.record
        /\ blk[2].s[2] = IF Given(t, "points_for") THEN "900" ELSE "?"
        /\ blk[2].s[3] = IF Given(t, "points_against") THEN "850" ELSE "?"
        /\ blk[2].s[4] = IF Given(t, "streak") THEN "W2" ELSE "?"
        /\ blk[3].s[1] = IF Given(t, "top_players") /\ t.top_players # <<>>
                         THEN "Player X (QB, 20 pts)" ELSE "none listed"

\* The league data shows every optional key of the context likewise.
ContextOptionalsRendered ==
    LET ctx == pargs.ctx IN
    /\ prompt.jokes_text =
          IF Given(ctx, "inside_jokes") /\ ctx.inside_jokes # <<>>
          THEN <<Line("- {term}: {explanation}", <<>>, <<Joke.term, Joke.explanation>>)>>
          ELSE <<Copy("None provided.")>>
    /\ prompt.personalities_text =
          IF Given(ctx, "personalities") /\ ctx.personalities # <<>>
          THEN <<Line("- {player_name}: {description}", <<>>,
                      <<Personality.player_name, Personality.description>>)>>
          ELSE <<Copy("None provided.")>>
    /\ prompt.culture = IF Given(ctx, "culture_notes") THEN ctx.culture_notes ELSE "not specified"
    /\ prompt.sacko = IF SackoGiven THEN ctx.sacko_punishment.s ELSE "not specified"

\* An omitted matchup list gives no matchup section, an omitted week the
\* label THIS WEEK, an omitted bracket no bracket section and a tier
\* template; what is given is in the prompt.
ArgumentOptionalsRendered ==
    /\ IF pargs.matchups[1].isNone
       THEN prompt.matchups_section = <<>>
       ELSE /\ prompt.matchups_section # <<>>
            /\ prompt.matchups_section[1].s =
                  <<IF pargs.matchups[2] = 0 THEN "THIS WEEK"
                    ELSE "WEEK " \o Str(pargs.matchups[2])>>
    /\ pargs.playoff_bracket.isNone => prompt.bracket_section = <<>> /\ TierTemplate
    /\ ~pargs.playoff_bracket.isNone /\ pargs.season_phase = "playoffs" =>
          prompt.bracket_section # <<>>

OptionalsRendered ==
    TeamOptionalsRendered /\ ContextOptionalsRendered /\ ArgumentOptionalsRendered

\* C28 as stated: for every combination of present and absent optional
\* inputs _build_prompt returns a prompt in which every absent input is
\* rendered by its placeholder and every present one by its value, and the
\* tier template has the generic sentence in place of the sacko sentence
\* exactly when no sacko punishment is given.
C28_GenericIffNoSacko ==
    Built =>
        /\ OptionalsRendered
        /\ TierTemplate => (TierSentence \in GenericSentences <=> ~SackoGiven)

\* C28: for every combination of present and absent optional inputs
\* _build_prompt returns a prompt in which every absent input is rendered
\* by its placeholder and every present one by its value, and the tier
\* template has the generic sentence in place of the sacko sentence
\* exactly when no sacko punishment is given or the punishment given is
\* the text "not specified"; otherwise the sacko sentence quotes the
\* punishment given.
C28_GenericIffPlaceholder ==
    Built =>
        /\ OptionalsRendered
        /\ TierTemplate =>
              IF ~SackoGiven \/ pargs.ctx.sacko_punishment.s = "not specified"
              THEN TierSentence \in GenericSentences
              ELSE TierSentence \in SackoSentences(pargs.ctx.sacko_punishment.s)

\* A prompt built with every optional input missing: each placeholder is
\* in its place and the bottom tier ends with the generic sentence.
C28_Witness ==
    /\ Built
    /\ DOMAIN pargs.ctx = {"sacko_punishment"}
    /\ ~SackoGiven
    /\ DOMAIN pargs.teams[1] \cap TeamOptionalKeys = {}
    /\ pargs.matchups[1].isNone
    /\ pargs.playoff_bracket.isNone
    /\ prompt.teams_text[2].s = <<"5-3", "?", "?", "?">>
    /\ prompt.teams_text[3].s = <<"none listed">>
    /\ prompt.jokes_text = <<Copy("None provided.")>>
    /\ prompt.personalities_text = <<Copy("None provided.")>>
    /\ prompt.culture = "not specified"
    /\ prompt.sacko = "not specified"
    /\ TierSentence \in GenericSentences

=============================================================================
